---- MODULE Spec2Model ----
(***************************************************************************)
(* Witness generation of plonky2 (iop/generator.rs), the random-access     *)
(* gate (gates/random_access.rs) and the Stark trait's degree arithmetic   *)
(* (starky/src/stark.rs).                                                  *)
(*                                                                         *)
(* Spec      : generate_partial_witness run on a bounded family of         *)
(*             circuits (generators, copy-constraint partition, inputs).   *)
(* GateSpec  : one row of a random-access gate: the generator of a copy    *)
(*             fills the row, eval_unfiltered evaluates the constraints.   *)
(*                                                                         *)
(* Generator indices and positions are 1-based here (0-based in Rust).     *)
(* An Option<T> is a sequence of length 0 (None) or 1 (Some).              *)
(***************************************************************************)
EXTENDS Integers, Sequences, FiniteSets, Bags, TLC

(***************************************************************************)
(* Bounds of the model.                                                    *)
(***************************************************************************)
NumTargets == 2      \* targets (witness slots) of an engine circuit
MaxGens == 2         \* generators of an engine circuit
MaxInputs == 1       \* externally supplied (Target, value) pairs
MaxVal == 1          \* inputs, random and general outputs, list items: 0..MaxVal
MaxPasses == 8       \* cap on the pass counter (never reached by the code)
MaxCopies == 2       \* num_copies of a random-access gate
MaxGateIndex == 1    \* rows of the circuit: gate_index in 0..MaxGateIndex
MaxBits == 4         \* bits of a gate whose declarations are examined
MaxShapeCopies == 4  \* num_copies of a gate whose declarations are examined

(***************************************************************************)
(* The field F.  The code is generic in F; the model instantiates it with  *)
(* the prime field of order P.                                             *)
(***************************************************************************)
P == 5
F == 0 .. (P - 1)

add(x, y) == (x + y) % P
sub(x, y) == (x - y + P) % P
mul(x, y) == (x * y) % P
double(x) == add(x, x)
inverse(x) == CHOOSE y \in F : mul(x, y) = 1

None == << >>
Some(v) == << v >>

Targets == 0 .. (NumTargets - 1)
InputVals == 0 .. MaxVal

SeqToSet(s) == { s[k] : k \in 1 .. Len(s) }

VARIABLES
    \* --- the circuit and the call's arguments (fixed during a run)
    generators,                 \* prover_data.generators
    representative_map,         \* prover_data.representative_map
    inputs,                     \* inputs.target_values not yet seeded
    \* --- locals of generate_partial_witness
    witness,                    \* PartitionWitness.values : target index -> Option<F>
    pending_generator_indices,
    next_pending_generator_indices,
    generator_is_expired,
    remaining_generators,
    buffer,                     \* GeneratedValues.target_values
    pos,                        \* position of the for loop in pending_generator_indices
    pc,                         \* "seed", "while", "for", "merge", "done", "panic"
    \* --- history (not read by the engine)
    pass,                       \* number of passes begun
    run_calls,                  \* per generator: calls of run in the current pass
    run_once_calls,             \* per generator: executions of run_once in the whole run
    populated_now,              \* representatives newly populated in the current pass
    trigger_count_now,          \* per generator: newly populated reps it watched, unexpired then
    trigger_count_prev,         \* trigger_count_now of the previous pass
    expired_at_start,           \* generator_is_expired as the current pass began
    written_reps,               \* representatives written by a seed or a merge
    overwritten,                \* representatives written while they held a value
    seeded,                     \* the Targets of the call's inputs
    given_inputs,               \* inputs.target_values as the call received them, where the
                                \* orderings of a list are compared (OrderSpec); << >> elsewhere
    populated_prev,             \* populated_now of the previous pass
    pending_at_start,           \* the worklist as the current pass began
    last_write,                 \* Option<(Target, F)>: the latest set_target
    \* --- one row of a random-access gate (GateSpec)
    gate,                       \* RandomAccessGate { bits, num_copies }
    debug_assertions,           \* the build: are debug_assert!s compiled in
    local_wires,                \* the row's wires: slot -> Option<F>
    next_copy,                  \* the copy whose generator runs next
    constraints,                \* the result of eval_unfiltered
    gpc,                        \* "off", "generate", "evaluate", "evaluated", "panic", ...
    gate_index,                 \* the row of the circuit the gate sits on
    out_buffer,                 \* the out_buffer of the generator that ran last
    \* --- the other evaluation modes of the gate (EvalSpec)
    constraints_base_packed,    \* the result of eval_unfiltered_base_packed
    constraints_recursively,    \* the result of eval_unfiltered_recursively
    constraints_base_batch,     \* the result of eval_unfiltered_base_batch
    constraints_base_one,       \* what eval_unfiltered_base_one handed to yield_constr
    \* --- the gate's declarations (ShapeSpec)
    layout,                     \* the wires of the row, role by role, with their slots
    symbolic,                   \* the degree of each constraint as a polynomial in the wires
    \* --- the sizing of a gate from a configuration (ConfigSpec)
    config,                     \* CircuitConfig: num_wires, num_routed_wires
    bits_arg,                   \* the bits argument of new_from_config
    measured,                   \* the results of num_routed_wires() and num_wires()
    \* --- the batch sizes of a Stark (StarkSpec)
    stark,                      \* constraint_degree(), permutation_pairs().len(), num_challenges
    stark_out                   \* the results of the Stark's sizing functions, call by call

engine_vars == << generators, representative_map, inputs, witness,
                  pending_generator_indices, next_pending_generator_indices,
                  generator_is_expired, remaining_generators, buffer, pos, pc,
                  pass, run_calls, run_once_calls, populated_now, trigger_count_now,
                  trigger_count_prev, expired_at_start, written_reps, overwritten,
                  seeded, given_inputs, populated_prev, pending_at_start, last_write >>

row_vars == << gate_index, out_buffer >>
eval_vars == << constraints_base_packed, constraints_recursively, constraints_base_batch,
                constraints_base_one >>
shape_vars == << layout, symbolic >>
size_vars == << config, bits_arg, measured, stark, stark_out >>

gate_vars == << gate, debug_assertions, local_wires, next_copy, constraints, gpc,
                row_vars, eval_vars, shape_vars, size_vars >>

vars == << engine_vars, gate_vars >>

(***************************************************************************)
(* Generators.                                                             *)
(***************************************************************************)
CopyGenerator(src, dst) == [kind |-> "copy", src |-> src, dst |-> dst]
RandomValueGenerator(target) == [kind |-> "random", target |-> target]
NonzeroTestGenerator(to_test, dummy) ==
    [kind |-> "nonzero", to_test |-> to_test, dummy |-> dummy]
\* any other implementation of WitnessGenerator: on every call run may
\* return either flag and emit a value on any of its targets, or on none
GeneralGenerator(watch, targets) ==
    [kind |-> "general", watch |-> watch, targets |-> targets]

IsSimple(g) == g.kind \in {"copy", "random", "nonzero"}

\* SimpleGenerator::dependencies
dependencies(g) ==
    CASE g.kind = "copy" -> << g.src >>
      [] g.kind = "random" -> << >>
      [] g.kind = "nonzero" -> << g.to_test >>

\* WitnessGenerator::watch_list
watch_list(g) == IF IsSimple(g) THEN dependencies(g) ELSE g.watch

\* the targets run_once writes
outputs(g) ==
    CASE g.kind = "copy" -> { g.dst }
      [] g.kind = "random" -> { g.target }
      [] g.kind = "nonzero" -> { g.dummy }

\* the Targets a generator names
TargetsOf(g) ==
    CASE g.kind = "copy" -> { g.src, g.dst }
      [] g.kind = "random" -> { g.target }
      [] g.kind = "nonzero" -> { g.to_test, g.dummy }
      [] g.kind = "general" -> SeqToSet(g.watch) \cup SeqToSet(g.targets)

\* the generators circuits are built from: those of the list below whose
\* Targets exist
GeneratorMenu ==
    { g \in { CopyGenerator(0, 1), CopyGenerator(1, 2),
              NonzeroTestGenerator(1, 0),
              RandomValueGenerator(0),
              GeneralGenerator(<< 0, 1 >>, << 1 >>) } :
        TargetsOf(g) \subseteq Targets }

SeqsUpTo(S, n) == UNION { [1 .. k -> S] : k \in 0 .. n }

\* representative maps: every class has one member that maps to itself
RepresentativeMaps == { m \in [Targets -> Targets] : \A t \in Targets : m[m[t]] = m[t] }

\* PartialWitness.target_values is a map: one value per Target, any order
InputLists ==
    { s \in SeqsUpTo(Targets \X InputVals, MaxInputs) :
        \A j, k \in 1 .. Len(s) : j # k => s[j][1] # s[k][1] }

(***************************************************************************)
(* PartitionWitness.                                                       *)
(***************************************************************************)
target_index(t) == t

\* two Targets are copy-constrained to each other
SameClass(t, u) == representative_map[t] = representative_map[u]

try_get_target(w, t) == w[representative_map[target_index(t)]]

get_target(w, t) == try_get_target(w, t)[1]

contains_all(w, ts) == \A k \in 1 .. Len(ts) : try_get_target(w, ts[k]) # None

\* writes the representative's slot; Some(rep) iff the slot was empty
set_target_returning_rep(w, t, v) ==
    LET rep_index == representative_map[target_index(t)]
    IN  [ witness |-> [w EXCEPT ![rep_index] = Some(v)],
          rep |-> IF w[rep_index] = None THEN Some(rep_index) ELSE None ]

set_target(w, t, v) == set_target_returning_rep(w, t, v).witness

\* generator_indices_by_watches.get(&watch): the generators that watch a
\* target of the class, in index order, each once
RECURSIVE WatchersFrom(_, _)
WatchersFrom(i, rep_index) ==
    IF i > Len(generators) THEN << >>
    ELSE (IF \E k \in 1 .. Len(watch_list(generators[i])) :
                representative_map[target_index(watch_list(generators[i])[k])] = rep_index
          THEN << i >> ELSE << >>) \o WatchersFrom(i + 1, rep_index)

generator_indices_by_watches(rep_index) == WatchersFrom(1, rep_index)

(***************************************************************************)
(* WitnessGenerator::run : the set of possible results [finished, out].    *)
(***************************************************************************)
\* a nonzero test that answers zero with zero
run_once_ZeroForZero(g, w) ==
    CASE g.kind = "copy" -> { << << g.dst, get_target(w, g.src) >> >> }
      [] g.kind = "random" -> { << << g.target, v >> >> : v \in InputVals }
      [] g.kind = "nonzero" ->
            LET to_test_value == get_target(w, g.to_test)
                dummy_value == IF to_test_value = 0 THEN 0 ELSE inverse(to_test_value)
            IN  { << << g.dummy, dummy_value >> >> }

run_once(g, w) ==
    CASE g.kind = "copy" -> { << << g.dst, get_target(w, g.src) >> >> }
      [] g.kind = "random" -> { << << g.target, v >> >> : v \in InputVals }
      [] g.kind = "nonzero" ->
            LET to_test_value == get_target(w, g.to_test)
                dummy_value == IF to_test_value = 0 THEN 1 ELSE inverse(to_test_value)
            IN  { << << g.dummy, dummy_value >> >> }

\* an adapter that reports completion without the dependencies
AdapterRun_FinishesEarly(g, w) ==
    IF contains_all(w, dependencies(g))
    THEN { [finished |-> TRUE, out |-> o, ran_once |-> TRUE] : o \in run_once(g, w) }
    ELSE { [finished |-> TRUE, out |-> << >>, ran_once |-> FALSE] }

\* an adapter that computes and still asks to be run again
AdapterRun_KeepsRunning(g, w) ==
    IF contains_all(w, dependencies(g))
    THEN { [finished |-> FALSE, out |-> o, ran_once |-> TRUE] : o \in run_once(g, w) }
    ELSE { [finished |-> FALSE, out |-> << >>, ran_once |-> FALSE] }

\* SimpleGeneratorAdapter::run
AdapterRun(g, w) ==
    IF contains_all(w, dependencies(g))
    THEN { [finished |-> TRUE, out |-> o, ran_once |-> TRUE] : o \in run_once(g, w) }
    ELSE { [finished |-> FALSE, out |-> << >>, ran_once |-> FALSE] }

\* the buffers that hold a value for some of the targets, in their order
RECURSIVE SomeOf(_)
SomeOf(targets) ==
    IF targets = << >> THEN { << >> }
    ELSE LET rest == SomeOf(Tail(targets))
         IN  rest \cup { << << Head(targets), v >> >> \o o : v \in InputVals, o \in rest }

GeneralRun(g, w) ==
    { [finished |-> f, out |-> o, ran_once |-> FALSE] :
        f \in BOOLEAN, o \in SomeOf(g.targets) }

run(g, w) == IF IsSimple(g) THEN AdapterRun(g, w) ELSE GeneralRun(g, w)

\* nothing evaluated and nothing laid out yet
eval_off ==
    /\ constraints_base_packed = << >>
    /\ constraints_recursively = << >>
    /\ constraints_base_batch = << >>
    /\ constraints_base_one = << >>

shape_off ==
    /\ layout = << >>
    /\ symbolic = << >>

\* nothing sized yet
size_off ==
    /\ config = << >>
    /\ bits_arg = 0
    /\ measured = << >>
    /\ stark = << >>
    /\ stark_out = << >>

(***************************************************************************)
(* generate_partial_witness.                                               *)
(***************************************************************************)
Init ==
    /\ generators \in SeqsUpTo(GeneratorMenu, MaxGens)
    /\ representative_map \in RepresentativeMaps
    /\ inputs \in InputLists
    /\ witness = [t \in Targets |-> None]
    /\ pending_generator_indices = << >>
    /\ next_pending_generator_indices = << >>
    /\ generator_is_expired = [g \in 1 .. Len(generators) |-> FALSE]
    /\ remaining_generators = Len(generators)
    /\ buffer = << >>
    /\ pos = 1
    /\ pc = "seed"
    /\ pass = 0
    /\ run_calls = [g \in 1 .. Len(generators) |-> 0]
    /\ run_once_calls = [g \in 1 .. Len(generators) |-> 0]
    /\ populated_now = {}
    /\ trigger_count_now = [g \in 1 .. Len(generators) |-> 0]
    /\ trigger_count_prev = [g \in 1 .. Len(generators) |-> 0]
    /\ expired_at_start = [g \in 1 .. Len(generators) |-> FALSE]
    /\ written_reps = {}
    /\ overwritten = {}
    /\ seeded = { inputs[k][1] : k \in 1 .. Len(inputs) }
    /\ given_inputs = << >>
    /\ populated_prev = {}
    /\ pending_at_start = << >>
    /\ last_write = None
    /\ gate = [bits |-> 1, num_copies |-> 1]
    /\ debug_assertions = TRUE
    /\ local_wires = << >>
    /\ next_copy = 0
    /\ constraints = << >>
    /\ gpc = "off"
    /\ gate_index = 0
    /\ out_buffer = << >>
    /\ eval_off
    /\ shape_off
    /\ size_off

circuit_vars == << generators, representative_map, seeded, given_inputs >>
history_pass_vars == << pass, run_calls, populated_now, trigger_count_now,
                        trigger_count_prev, expired_at_start, populated_prev,
                        pending_at_start >>

\* for (t, v) in inputs.target_values { witness.set_target(t, v) }
SeedInput ==
    /\ UNCHANGED gate_vars
    /\ pc = "seed"
    /\ inputs # << >>
    /\ witness' = set_target(witness, Head(inputs)[1], Head(inputs)[2])
    /\ inputs' = Tail(inputs)
    /\ last_write' = Some(Head(inputs))
    /\ written_reps' = written_reps \cup { representative_map[Head(inputs)[1]] }
    /\ overwritten' = overwritten \cup
          { r \in { representative_map[Head(inputs)[1]] } : witness[r] # None }
    /\ UNCHANGED << circuit_vars, pending_generator_indices,
                    next_pending_generator_indices, generator_is_expired,
                    remaining_generators, buffer, pos, pc, history_pass_vars,
                    run_once_calls >>

\* a worklist that starts with the last generator
StartLoop_LastFirst ==
    /\ UNCHANGED gate_vars
    /\ pc = "seed"
    /\ inputs = << >>
    /\ pending_generator_indices' = [k \in 1 .. Len(generators) |-> Len(generators) + 1 - k]
    /\ generator_is_expired' = [g \in 1 .. Len(generators) |-> FALSE]
    /\ remaining_generators' = Len(generators)
    /\ buffer' = << >>
    /\ pc' = "while"
    /\ UNCHANGED << circuit_vars, inputs, witness, next_pending_generator_indices,
                    pos, history_pass_vars, run_once_calls, last_write, written_reps, overwritten >>

\* pending = (0..generators.len()).collect(); expired = [false; n]; remaining = n
StartLoop ==
    /\ UNCHANGED gate_vars
    /\ pc = "seed"
    /\ inputs = << >>
    /\ pending_generator_indices' = [k \in 1 .. Len(generators) |-> k]
    /\ generator_is_expired' = [g \in 1 .. Len(generators) |-> FALSE]
    /\ remaining_generators' = Len(generators)
    /\ buffer' = << >>
    /\ pc' = "while"
    /\ UNCHANGED << circuit_vars, inputs, witness, next_pending_generator_indices,
                    pos, history_pass_vars, run_once_calls, last_write, written_reps, overwritten >>

\* a pass that begins without a new next_pending list
BeginPass_KeepsNext ==
    /\ UNCHANGED gate_vars
    /\ pc = "while"
    /\ pending_generator_indices # << >>
    /\ pass < MaxPasses
    /\ next_pending_generator_indices' = next_pending_generator_indices
    /\ pos' = 1
    /\ pc' = "for"
    /\ pass' = pass + 1
    /\ run_calls' = [g \in 1 .. Len(generators) |-> 0]
    /\ trigger_count_prev' = trigger_count_now
    /\ populated_prev' = populated_now
    /\ trigger_count_now' = [g \in 1 .. Len(generators) |-> 0]
    /\ populated_now' = {}
    /\ expired_at_start' = generator_is_expired
    /\ pending_at_start' = pending_generator_indices
    /\ UNCHANGED << circuit_vars, inputs, witness, pending_generator_indices,
                    generator_is_expired, remaining_generators, buffer,
                    run_once_calls, last_write, written_reps, overwritten >>

\* while !pending.is_empty() { next_pending = Vec::new(); for ... }
BeginPass ==
    /\ UNCHANGED gate_vars
    /\ pc = "while"
    /\ pending_generator_indices # << >>
    /\ pass < MaxPasses
    /\ next_pending_generator_indices' = << >>
    /\ pos' = 1
    /\ pc' = "for"
    /\ pass' = pass + 1
    /\ run_calls' = [g \in 1 .. Len(generators) |-> 0]
    /\ trigger_count_prev' = trigger_count_now
    /\ populated_prev' = populated_now
    /\ trigger_count_now' = [g \in 1 .. Len(generators) |-> 0]
    /\ populated_now' = {}
    /\ expired_at_start' = generator_is_expired
    /\ pending_at_start' = pending_generator_indices
    /\ UNCHANGED << circuit_vars, inputs, witness, pending_generator_indices,
                    generator_is_expired, remaining_generators, buffer,
                    run_once_calls, last_write, written_reps, overwritten >>

generator_idx == pending_generator_indices[pos]

\* if generator_is_expired[generator_idx] { continue; }
SkipExpired ==
    /\ UNCHANGED gate_vars
    /\ pc = "for"
    /\ pos <= Len(pending_generator_indices)
    /\ generator_is_expired[generator_idx]
    /\ pos' = pos + 1
    /\ UNCHANGED << circuit_vars, inputs, witness, pending_generator_indices,
                    next_pending_generator_indices, generator_is_expired,
                    remaining_generators, buffer, pc, history_pass_vars,
                    run_once_calls, last_write, written_reps, overwritten >>

\* a run of the generator at pos whether it is expired or not
RunGenerator_IgnoresExpiry ==
    /\ UNCHANGED gate_vars
    /\ pc = "for"
    /\ pos <= Len(pending_generator_indices)
    /\ \E r \in run(generators[generator_idx], witness) :
         /\ buffer' = buffer \o r.out
         /\ generator_is_expired' =
                IF r.finished
                THEN [generator_is_expired EXCEPT ![generator_idx] = TRUE]
                ELSE generator_is_expired
         /\ remaining_generators' =
                IF r.finished THEN remaining_generators - 1 ELSE remaining_generators
         /\ run_once_calls' =
                IF r.ran_once
                THEN [run_once_calls EXCEPT ![generator_idx] = @ + 1]
                ELSE run_once_calls
    /\ run_calls' = [run_calls EXCEPT ![generator_idx] = @ + 1]
    /\ pc' = "merge"
    /\ UNCHANGED << circuit_vars, inputs, witness, pending_generator_indices,
                    next_pending_generator_indices, pos, pass, populated_now,
                    trigger_count_now, trigger_count_prev, expired_at_start,
                    populated_prev, pending_at_start, last_write, written_reps, overwritten >>

\* a run that decrements the count whether the generator finished or not
RunGenerator_CountsEveryRun ==
    /\ UNCHANGED gate_vars
    /\ pc = "for"
    /\ pos <= Len(pending_generator_indices)
    /\ ~ generator_is_expired[generator_idx]
    /\ \E r \in run(generators[generator_idx], witness) :
         /\ buffer' = buffer \o r.out
         /\ generator_is_expired' =
                IF r.finished
                THEN [generator_is_expired EXCEPT ![generator_idx] = TRUE]
                ELSE generator_is_expired
         /\ remaining_generators' = remaining_generators - 1
         /\ run_once_calls' =
                IF r.ran_once
                THEN [run_once_calls EXCEPT ![generator_idx] = @ + 1]
                ELSE run_once_calls
    /\ run_calls' = [run_calls EXCEPT ![generator_idx] = @ + 1]
    /\ pc' = "merge"
    /\ UNCHANGED << circuit_vars, inputs, witness, pending_generator_indices,
                    next_pending_generator_indices, pos, pass, populated_now,
                    trigger_count_now, trigger_count_prev, expired_at_start,
                    populated_prev, pending_at_start, last_write, written_reps, overwritten >>

\* let finished = generators[idx].run(&witness, &mut buffer);
\* if finished { expired[idx] = true; remaining -= 1; }
RunGenerator ==
    /\ UNCHANGED gate_vars
    /\ pc = "for"
    /\ pos <= Len(pending_generator_indices)
    /\ ~ generator_is_expired[generator_idx]
    /\ \E r \in run(generators[generator_idx], witness) :
         /\ buffer' = buffer \o r.out
         /\ generator_is_expired' =
                IF r.finished
                THEN [generator_is_expired EXCEPT ![generator_idx] = TRUE]
                ELSE generator_is_expired
         /\ remaining_generators' =
                IF r.finished THEN remaining_generators - 1 ELSE remaining_generators
         /\ run_once_calls' =
                IF r.ran_once
                THEN [run_once_calls EXCEPT ![generator_idx] = @ + 1]
                ELSE run_once_calls
    /\ run_calls' = [run_calls EXCEPT ![generator_idx] = @ + 1]
    /\ pc' = "merge"
    /\ UNCHANGED << circuit_vars, inputs, witness, pending_generator_indices,
                    next_pending_generator_indices, pos, pass, populated_now,
                    trigger_count_now, trigger_count_prev, expired_at_start,
                    populated_prev, pending_at_start, last_write, written_reps, overwritten >>

\* a push of every watcher, expired or not
UnexpiredOf_All(watchers) == watchers

\* a push of no watcher
UnexpiredOf_None(watchers) == << >>

\* the unexpired watchers of a representative, in the order they are pushed:
\* if !generator_is_expired[watching_generator_idx] { next_pending.push(..) }
RECURSIVE UnexpiredOf(_)
UnexpiredOf(watchers) ==
    IF watchers = << >> THEN << >>
    ELSE (IF ~ generator_is_expired[Head(watchers)] THEN << Head(watchers) >> ELSE << >>)
         \o UnexpiredOf(Tail(watchers))

\* a merge that enqueues the watchers on every write, new or not
MergeOne_EnqueueOnEveryWrite(acc, tv) ==
    LET s == set_target_returning_rep(acc.witness, tv[1], tv[2])
    IN  [ witness |-> s.witness,
          next |-> acc.next
                   \o UnexpiredOf(generator_indices_by_watches(representative_map[tv[1]])),
          new_target_reps |-> acc.new_target_reps \o s.rep ]

\* a merge that writes the Target's own slot instead of its representative's
MergeOne_NoRepresentative(acc, tv) ==
    LET slot == target_index(tv[1])
        new == acc.witness[slot] = None
    IN  [ witness |-> [acc.witness EXCEPT ![slot] = Some(tv[2])],
          next |-> acc.next
                   \o (IF new THEN UnexpiredOf(generator_indices_by_watches(slot)) ELSE << >>),
          new_target_reps |-> acc.new_target_reps \o (IF new THEN Some(slot) ELSE None) ]

\* a merge that enqueues nobody
MergeOne_NoEnqueue(acc, tv) ==
    LET s == set_target_returning_rep(acc.witness, tv[1], tv[2])
    IN  [ witness |-> s.witness,
          next |-> acc.next,
          new_target_reps |-> acc.new_target_reps \o s.rep ]

\* a merge that empties a representative written a second time
MergeOne_ClearsOnConflict(acc, tv) ==
    LET s == set_target_returning_rep(acc.witness, tv[1], tv[2])
        rep_index == representative_map[target_index(tv[1])]
    IN  [ witness |-> IF s.rep = None
                      THEN [acc.witness EXCEPT ![rep_index] = None]
                      ELSE s.witness,
          next |-> acc.next
                   \o (IF s.rep = None THEN << >>
                       ELSE UnexpiredOf(generator_indices_by_watches(s.rep[1]))),
          new_target_reps |-> acc.new_target_reps \o s.rep ]

\* a merge that keeps the value a representative already holds
MergeOne_FirstWriteWins(acc, tv) ==
    LET s == set_target_returning_rep(acc.witness, tv[1], tv[2])
    IN  [ witness |-> IF s.rep = None THEN acc.witness ELSE s.witness,
          next |-> acc.next
                   \o (IF s.rep = None THEN << >>
                       ELSE UnexpiredOf(generator_indices_by_watches(s.rep[1]))),
          new_target_reps |-> acc.new_target_reps \o s.rep ]

\* the merge of one (t, v) of the buffer: witness.set_target_returning_rep(t, v)
\* and, if it yields a representative, the push of its unexpired watchers
MergeOne(acc, tv) ==
    LET s == set_target_returning_rep(acc.witness, tv[1], tv[2])
    IN  [ witness |-> s.witness,
          next |-> acc.next
                   \o (IF s.rep = None THEN << >>
                       ELSE UnexpiredOf(generator_indices_by_watches(s.rep[1]))),
          new_target_reps |-> acc.new_target_reps \o s.rep ]

\* buffer.target_values.drain(..) merged pair by pair
RECURSIVE MergeBuffer(_, _)
MergeBuffer(buf, acc) ==
    IF buf = << >> THEN acc
    ELSE MergeBuffer(Tail(buf), MergeOne(acc, Head(buf)))

\* g declared a target of the class of rep_index in its watch list
Watches(g, rep_index) ==
    \E t \in SeqToSet(watch_list(generators[g])) : representative_map[t] = rep_index

\* a merge that does not drain the buffer
Merge_KeepsBuffer ==
    /\ UNCHANGED gate_vars
    /\ pc = "merge"
    /\ LET m == MergeBuffer(buffer,
                            [ witness |-> witness,
                              next |-> next_pending_generator_indices,
                              new_target_reps |-> << >> ])
       IN  /\ witness' = m.witness
           /\ next_pending_generator_indices' = m.next
    \* history: the representatives the buffer addresses, those that held no
    \* value before, and the unexpired generators that watch them
    /\ LET touched == { representative_map[buffer[k][1]] : k \in 1 .. Len(buffer) }
           fresh == { r \in touched : witness[r] = None }
           again == { representative_map[buffer[k][1]] : k \in
                        { k \in 1 .. Len(buffer) :
                            \E j \in 1 .. (k - 1) : SameClass(buffer[j][1], buffer[k][1]) } }
       IN  /\ written_reps' = written_reps \cup touched
           /\ overwritten' = overwritten \cup (touched \ fresh) \cup again
           /\ populated_now' = populated_now \cup fresh
           /\ trigger_count_now' =
                 [g \in 1 .. Len(generators) |->
                     IF generator_is_expired[g] THEN trigger_count_now[g]
                     ELSE trigger_count_now[g]
                          + Cardinality({ r \in fresh : Watches(g, r) })]
    /\ last_write' = IF buffer = << >> THEN last_write ELSE Some(buffer[Len(buffer)])
    /\ buffer' = buffer
    /\ pos' = pos + 1
    /\ pc' = "for"
    /\ UNCHANGED << circuit_vars, inputs, pending_generator_indices,
                    generator_is_expired, remaining_generators, pass, run_calls,
                    run_once_calls, trigger_count_prev, expired_at_start,
                    populated_prev, pending_at_start >>

Merge ==
    /\ UNCHANGED gate_vars
    /\ pc = "merge"
    /\ LET m == MergeBuffer(buffer,
                            [ witness |-> witness,
                              next |-> next_pending_generator_indices,
                              new_target_reps |-> << >> ])
       IN  /\ witness' = m.witness
           /\ next_pending_generator_indices' = m.next
    \* history: the representatives the buffer addresses, those that held no
    \* value before, and the unexpired generators that watch them
    /\ LET touched == { representative_map[buffer[k][1]] : k \in 1 .. Len(buffer) }
           fresh == { r \in touched : witness[r] = None }
           again == { representative_map[buffer[k][1]] : k \in
                        { k \in 1 .. Len(buffer) :
                            \E j \in 1 .. (k - 1) : SameClass(buffer[j][1], buffer[k][1]) } }
       IN  /\ written_reps' = written_reps \cup touched
           /\ overwritten' = overwritten \cup (touched \ fresh) \cup again
           /\ populated_now' = populated_now \cup fresh
           /\ trigger_count_now' =
                 [g \in 1 .. Len(generators) |->
                     IF generator_is_expired[g] THEN trigger_count_now[g]
                     ELSE trigger_count_now[g]
                          + Cardinality({ r \in fresh : Watches(g, r) })]
    /\ last_write' = IF buffer = << >> THEN last_write ELSE Some(buffer[Len(buffer)])
    /\ buffer' = << >>
    /\ pos' = pos + 1
    /\ pc' = "for"
    /\ UNCHANGED << circuit_vars, inputs, pending_generator_indices,
                    generator_is_expired, remaining_generators, pass, run_calls,
                    run_once_calls, trigger_count_prev, expired_at_start,
                    populated_prev, pending_at_start >>

\* pending_generator_indices = next_pending_generator_indices;
EndPass ==
    /\ UNCHANGED gate_vars
    /\ pc = "for"
    /\ pos > Len(pending_generator_indices)
    /\ pending_generator_indices' = next_pending_generator_indices
    /\ pc' = "while"
    /\ UNCHANGED << circuit_vars, inputs, witness, next_pending_generator_indices,
                    generator_is_expired, remaining_generators, buffer, pos,
                    history_pass_vars, run_once_calls, last_write, written_reps, overwritten >>

\* a return without the assertion
Return_NoAssert ==
    /\ UNCHANGED gate_vars
    /\ pc = "while"
    /\ pending_generator_indices = << >>
    /\ pc' = "done"
    /\ UNCHANGED << circuit_vars, inputs, witness, pending_generator_indices,
                    next_pending_generator_indices, generator_is_expired,
                    remaining_generators, buffer, pos, history_pass_vars,
                    run_once_calls, last_write, written_reps, overwritten >>

\* assert_eq!(remaining_generators, 0, ...) passes; witness is returned
Return ==
    /\ UNCHANGED gate_vars
    /\ pc = "while"
    /\ pending_generator_indices = << >>
    /\ remaining_generators = 0
    /\ pc' = "done"
    /\ UNCHANGED << circuit_vars, inputs, witness, pending_generator_indices,
                    next_pending_generator_indices, generator_is_expired,
                    remaining_generators, buffer, pos, history_pass_vars,
                    run_once_calls, last_write, written_reps, overwritten >>

\* assert_eq!(remaining_generators, 0, "{} generators weren't run") fails
AssertFails ==
    /\ UNCHANGED gate_vars
    /\ pc = "while"
    /\ pending_generator_indices = << >>
    /\ remaining_generators # 0
    /\ pc' = "panic"
    /\ UNCHANGED << circuit_vars, inputs, witness, pending_generator_indices,
                    next_pending_generator_indices, generator_is_expired,
                    remaining_generators, buffer, pos, history_pass_vars,
                    run_once_calls, last_write, written_reps, overwritten >>

Next ==
    \/ SeedInput
    \/ StartLoop
    \/ BeginPass
    \/ SkipExpired
    \/ RunGenerator
    \/ Merge
    \/ EndPass
    \/ Return
    \/ AssertFails

Spec == Init /\ [][Next]_vars

(***************************************************************************)
(* OrderSpec: generate_partial_witness on circuits of deterministic        *)
(* one-shot generators, each at most once in the list, with any Targets    *)
(* supplied as inputs (in Target order).                                   *)
(***************************************************************************)
IsDeterministic(g) == g.kind \in {"copy", "nonzero"}

DeterministicLists ==
    { gs \in SeqsUpTo({ g \in GeneratorMenu : IsDeterministic(g) }, MaxGens) :
         \A j, k \in 1 .. Len(gs) : j # k => gs[j] # gs[k] }

\* the inputs that give each Target a value or none
RECURSIVE InputsFrom(_, _)
InputsFrom(given, t) ==
    IF t >= NumTargets THEN << >>
    ELSE (IF given[t] = None THEN << >> ELSE << << t, given[t][1] >> >>)
         \o InputsFrom(given, t + 1)

AnyInputs ==
    { InputsFrom(given, 0) :
         given \in [Targets -> {None} \cup { Some(v) : v \in InputVals }] }

OrderInit ==
    /\ generators \in DeterministicLists
    /\ representative_map \in RepresentativeMaps
    /\ inputs \in AnyInputs
    /\ witness = [t \in Targets |-> None]
    /\ pending_generator_indices = << >>
    /\ next_pending_generator_indices = << >>
    /\ generator_is_expired = [g \in 1 .. Len(generators) |-> FALSE]
    /\ remaining_generators = Len(generators)
    /\ buffer = << >>
    /\ pos = 1
    /\ pc = "seed"
    /\ pass = 0
    /\ run_calls = [g \in 1 .. Len(generators) |-> 0]
    /\ run_once_calls = [g \in 1 .. Len(generators) |-> 0]
    /\ populated_now = {}
    /\ trigger_count_now = [g \in 1 .. Len(generators) |-> 0]
    /\ trigger_count_prev = [g \in 1 .. Len(generators) |-> 0]
    /\ expired_at_start = [g \in 1 .. Len(generators) |-> FALSE]
    /\ written_reps = {}
    /\ overwritten = {}
    /\ seeded = { inputs[k][1] : k \in 1 .. Len(inputs) }
    /\ given_inputs = inputs
    /\ populated_prev = {}
    /\ pending_at_start = << >>
    /\ last_write = None
    /\ gate = [bits |-> 1, num_copies |-> 1]
    /\ debug_assertions = TRUE
    /\ local_wires = << >>
    /\ next_copy = 0
    /\ constraints = << >>
    /\ gpc = "off"
    /\ gate_index = 0
    /\ out_buffer = << >>
    /\ eval_off
    /\ shape_off
    /\ size_off

OrderSpec == OrderInit /\ [][Next]_vars

(***************************************************************************)
(* NonzeroSpec: the engine on lists of NonzeroTestGenerators, the inputs   *)
(* taking any value of the field.                                          *)
(***************************************************************************)
NonzeroMenu == { NonzeroTestGenerator(t, (t + 1) % NumTargets) : t \in Targets }

NonzeroLists ==
    { gs \in SeqsUpTo(NonzeroMenu, MaxGens) :
         \A j, k \in 1 .. Len(gs) : j # k => gs[j] # gs[k] }

FieldInputs ==
    { InputsFrom(given, 0) :
         given \in [Targets -> {None} \cup { Some(v) : v \in F }] }

NonzeroInit ==
    /\ generators \in NonzeroLists
    /\ representative_map \in RepresentativeMaps
    /\ inputs \in FieldInputs
    /\ witness = [t \in Targets |-> None]
    /\ pending_generator_indices = << >>
    /\ next_pending_generator_indices = << >>
    /\ generator_is_expired = [g \in 1 .. Len(generators) |-> FALSE]
    /\ remaining_generators = Len(generators)
    /\ buffer = << >>
    /\ pos = 1
    /\ pc = "seed"
    /\ pass = 0
    /\ run_calls = [g \in 1 .. Len(generators) |-> 0]
    /\ run_once_calls = [g \in 1 .. Len(generators) |-> 0]
    /\ populated_now = {}
    /\ trigger_count_now = [g \in 1 .. Len(generators) |-> 0]
    /\ trigger_count_prev = [g \in 1 .. Len(generators) |-> 0]
    /\ expired_at_start = [g \in 1 .. Len(generators) |-> FALSE]
    /\ written_reps = {}
    /\ overwritten = {}
    /\ seeded = { inputs[k][1] : k \in 1 .. Len(inputs) }
    /\ given_inputs = << >>
    /\ populated_prev = {}
    /\ pending_at_start = << >>
    /\ last_write = None
    /\ gate = [bits |-> 1, num_copies |-> 1]
    /\ debug_assertions = TRUE
    /\ local_wires = << >>
    /\ next_copy = 0
    /\ constraints = << >>
    /\ gpc = "off"
    /\ gate_index = 0
    /\ out_buffer = << >>
    /\ eval_off
    /\ shape_off
    /\ size_off

NonzeroSpec == NonzeroInit /\ [][Next]_vars

(***************************************************************************)
(* RandomAccessGate: the layout of a row.  Slots are 0-based.              *)
(***************************************************************************)
Pow2(n) == 2 ^ n

\* the gates all of whose indices in [0, 2^bits) are elements of F
BitsRange == { b \in 1 .. P : Pow2(b) <= P }

GateShapes == [bits : BitsRange, num_copies : 1 .. MaxCopies]

ListVals == 0 .. MaxVal

vec_size(g) == Pow2(g.bits)

wire_access_index(g, copy) == (2 + vec_size(g)) * copy

wire_claimed_element(g, copy) == (2 + vec_size(g)) * copy + 1

wire_list_item(g, i, copy) == (2 + vec_size(g)) * copy + 2 + i

start_of_intermediate_wires(g) == (2 + vec_size(g)) * g.num_copies

num_routed_wires(g) == start_of_intermediate_wires(g)

\* bit wires laid out with a stride of one per copy
wire_bit_UnitStride(g, i, copy) == start_of_intermediate_wires(g) + copy + i

wire_bit(g, i, copy) == start_of_intermediate_wires(g) + copy * g.bits + i

num_wires(g) == wire_bit(g, g.bits - 1, g.num_copies - 1) + 1

\* a declaration that counts the bit levels only
degree_BitsOnly(g) == g.bits

degree(g) == g.bits + 1

num_constraints(g) == g.num_copies * (g.bits + 2)

(***************************************************************************)
(* RandomAccessGate::eval_unfiltered on a row of field elements            *)
(* (lw : slot -> F).                                                       *)
(***************************************************************************)
\* the pair taken the other way round: y + b * (x - y)
FoldOnce_Swapped(list_items, b) ==
    [k \in 1 .. (Len(list_items) \div 2) |->
        add(list_items[2 * k], mul(b, sub(list_items[2 * k - 1], list_items[2 * k])))]

\* list_items.iter().tuples().map(|(&x, &y)| x + b * (y - x))
FoldOnce(list_items, b) ==
    [k \in 1 .. (Len(list_items) \div 2) |->
        add(list_items[2 * k - 1], mul(b, sub(list_items[2 * k], list_items[2 * k - 1])))]

RECURSIVE FoldList(_, _)
FoldList(list_items, bits) ==
    IF bits = << >> THEN list_items
    ELSE FoldList(FoldOnce(list_items, Head(bits)), Tail(bits))

\* a fold that forgets to double
RECURSIVE Reconstruct_NoDouble(_)
Reconstruct_NoDouble(bits) ==
    IF bits = << >> THEN 0
    ELSE add(Reconstruct_NoDouble(Tail(bits)), Head(bits))

\* bits.iter().rev().fold(ZERO, |acc, &b| acc.double() + b)
RECURSIVE Reconstruct(_)
Reconstruct(bits) ==
    IF bits = << >> THEN 0
    ELSE add(double(Reconstruct(Tail(bits))), Head(bits))

\* the same values with the reconstruction check put first
EvalCopy_ReconstructionFirst(g, lw, copy) ==
    LET access_index == lw[wire_access_index(g, copy)]
        list_items == [k \in 1 .. vec_size(g) |-> lw[wire_list_item(g, k - 1, copy)]]
        claimed_element == lw[wire_claimed_element(g, copy)]
        bits == [k \in 1 .. g.bits |-> lw[wire_bit(g, k - 1, copy)]]
    IN  << sub(Reconstruct(bits), access_index) >>
        \o [k \in 1 .. g.bits |-> mul(bits[k], sub(bits[k], 1))]
        \o << sub(FoldList(list_items, bits)[1], claimed_element) >>

EvalCopy(g, lw, copy) ==
    LET access_index == lw[wire_access_index(g, copy)]
        list_items == [k \in 1 .. vec_size(g) |-> lw[wire_list_item(g, k - 1, copy)]]
        claimed_element == lw[wire_claimed_element(g, copy)]
        bits == [k \in 1 .. g.bits |-> lw[wire_bit(g, k - 1, copy)]]
    IN  [k \in 1 .. g.bits |-> mul(bits[k], sub(bits[k], 1))]
        \o << sub(Reconstruct(bits), access_index) >>
        \o << sub(FoldList(list_items, bits)[1], claimed_element) >>

RECURSIVE EvalFrom(_, _, _)
EvalFrom(g, lw, copy) ==
    IF copy >= g.num_copies THEN << >>
    ELSE EvalCopy(g, lw, copy) \o EvalFrom(g, lw, copy + 1)

eval_unfiltered(g, lw) == EvalFrom(g, lw, 0)

(***************************************************************************)
(* RandomAccessGenerator.                                                  *)
(***************************************************************************)
\* dependencies(): the access index wire, then the list items
RandomAccessDependencies(g, copy) ==
    << wire_access_index(g, copy) >>
    \o [k \in 1 .. vec_size(g) |-> wire_list_item(g, k - 1, copy)]

\* witness.get_wire: the outcomes of reading a slot of the row.  A slot of
\* the row that holds no value panics (unwrap of None); a slot beyond the
\* gate's wires belongs to whatever the circuit put there.
GetLocalWire(g, lw, slot) ==
    IF slot < num_wires(g)
    THEN (IF lw[slot] = None THEN { [panic |-> TRUE, value |-> 0] }
          ELSE { [panic |-> FALSE, value |-> lw[slot][1]] })
    ELSE { [panic |-> TRUE, value |-> 0] }
         \cup { [panic |-> FALSE, value |-> v] : v \in F }

\* a shift by one too many
BitOf_OffByOne(access_index, i) == (access_index \div Pow2(i + 1)) % 2

\* ((access_index >> i) & 1) != 0
BitOf(access_index, i) == (access_index \div Pow2(i)) % 2

\* a generator that sets the bit wires of copy 0 whatever its copy
RandomAccessRunOnce_BitsOfFirstCopy(g, lw, copy, debug) ==
    LET access_index == lw[wire_access_index(g, copy)][1]
        bit_values == [k \in 1 .. g.bits |->
                          << wire_bit(g, k - 1, 0), BitOf(access_index, k - 1) >>]
    IN  IF debug /\ ~ (access_index < vec_size(g))
        THEN { [panic |-> TRUE, out |-> << >>] }
        ELSE { IF r.panic
               THEN [panic |-> TRUE, out |-> << >>]
               ELSE [panic |-> FALSE,
                     out |-> << << wire_claimed_element(g, copy), r.value >> >>
                             \o bit_values]
               : r \in GetLocalWire(g, lw, wire_list_item(g, access_index, copy)) }

\* run_once: the set of outcomes [panic, out]
RandomAccessRunOnce(g, lw, copy, debug) ==
    LET access_index == lw[wire_access_index(g, copy)][1]
        bit_values == [k \in 1 .. g.bits |->
                          << wire_bit(g, k - 1, copy), BitOf(access_index, k - 1) >>]
    IN  IF debug /\ ~ (access_index < vec_size(g))
        THEN { [panic |-> TRUE, out |-> << >>] }
        ELSE { IF r.panic
               THEN [panic |-> TRUE, out |-> << >>]
               ELSE [panic |-> FALSE,
                     out |-> << << wire_claimed_element(g, copy), r.value >> >>
                             \o bit_values]
               : r \in GetLocalWire(g, lw, wire_list_item(g, access_index, copy)) }

\* let local_wire = |input| Wire { gate: self.gate_index, input }
local_wire(row, input) == [gate |-> row, input |-> input]

\* RandomAccessGate::generators(gate_index, ..): one RandomAccessGenerator
\* { gate_index, gate, copy } per copy, in copy order
gate_generators(g, row) ==
    [k \in 1 .. g.num_copies |-> [gate_index |-> row, gate |-> g, copy |-> k - 1]]

\* SimpleGenerator::dependencies of a RandomAccessGenerator: Wires of its row
watch_wires(gen) ==
    [k \in 1 .. Len(RandomAccessDependencies(gen.gate, gen.copy)) |->
        local_wire(gen.gate_index, RandomAccessDependencies(gen.gate, gen.copy)[k])]

\* the row after the engine merged a buffer of (slot, value) pairs
RECURSIVE SetWires(_, _)
SetWires(lw, out) ==
    IF out = << >> THEN lw
    ELSE SetWires([lw EXCEPT ![Head(out)[1]] = Some(Head(out)[2])], Tail(out))

RowContainsAll(lw, slots) == \A k \in 1 .. Len(slots) : lw[slots[k]] # None

(***************************************************************************)
(* GateSpec: the access index and list wires of every copy hold values:    *)
(* any index and list for one copy, a fixed valid index and list for each  *)
(* other copy.  The generators of the copies run in copy order, then the   *)
(* row is evaluated.                                                       *)
(***************************************************************************)
engine_off ==
    /\ generators = << >>
    /\ representative_map = [t \in Targets |-> t]
    /\ inputs = << >>
    /\ witness = [t \in Targets |-> None]
    /\ pending_generator_indices = << >>
    /\ next_pending_generator_indices = << >>
    /\ generator_is_expired = << >>
    /\ remaining_generators = 0
    /\ buffer = << >>
    /\ pos = 1
    /\ pc = "off"
    /\ pass = 0
    /\ run_calls = << >>
    /\ run_once_calls = << >>
    /\ populated_now = {}
    /\ trigger_count_now = << >>
    /\ trigger_count_prev = << >>
    /\ expired_at_start = << >>
    /\ written_reps = {}
    /\ overwritten = {}
    /\ seeded = {}
    /\ given_inputs = << >>
    /\ populated_prev = {}
    /\ pending_at_start = << >>
    /\ last_write = None

\* the inputs of the copies other than the one under study
OtherIndex(g, copy) == copy % vec_size(g)
OtherList(g, copy) == [i \in 0 .. (vec_size(g) - 1) |-> (i + copy + 1) % P]

InitialRow(g, indices, lists) ==
    [slot \in 0 .. (num_wires(g) - 1) |->
        IF \E c \in 0 .. (g.num_copies - 1) : slot = wire_access_index(g, c)
        THEN Some(indices[CHOOSE c \in 0 .. (g.num_copies - 1) : slot = wire_access_index(g, c)])
        ELSE IF \E c \in 0 .. (g.num_copies - 1), i \in 0 .. (vec_size(g) - 1) :
                    slot = wire_list_item(g, i, c)
        THEN LET ci == CHOOSE ci \in (0 .. (g.num_copies - 1)) \X (0 .. (vec_size(g) - 1)) :
                           slot = wire_list_item(g, ci[2], ci[1])
             IN  Some(lists[ci[1]][ci[2]])
        ELSE None]

GateInit ==
    /\ engine_off
    /\ gate \in GateShapes
    /\ debug_assertions \in BOOLEAN
    /\ \E copy \in 0 .. (gate.num_copies - 1),
          access_index \in F,
          list \in [0 .. (vec_size(gate) - 1) -> ListVals] :
            local_wires =
               InitialRow(gate,
                          [c \in 0 .. (gate.num_copies - 1) |->
                              IF c = copy THEN access_index ELSE OtherIndex(gate, c)],
                          [c \in 0 .. (gate.num_copies - 1) |->
                              IF c = copy THEN list ELSE OtherList(gate, c)])
    /\ next_copy = 0
    /\ constraints = << >>
    /\ gpc = "generate"
    /\ gate_index \in 0 .. MaxGateIndex
    /\ out_buffer = << >>
    /\ eval_off
    /\ shape_off
    /\ size_off

\* SimpleGeneratorAdapter::run of the generator of next_copy, and the merge
\* of its buffer
RunCopyGenerator ==
    /\ gpc = "generate"
    /\ next_copy < Len(gate_generators(gate, gate_index))
    /\ LET gen == gate_generators(gate, gate_index)[next_copy + 1]
       IN
       /\ RowContainsAll(local_wires, [k \in 1 .. Len(watch_wires(gen)) |-> watch_wires(gen)[k].input])
       /\ \E r \in RandomAccessRunOnce(gen.gate, local_wires, gen.copy, debug_assertions) :
         IF r.panic
         THEN /\ gpc' = "panic"
              /\ UNCHANGED << local_wires, next_copy, out_buffer >>
         ELSE /\ local_wires' = SetWires(local_wires, r.out)
              /\ out_buffer' = [k \in 1 .. Len(r.out) |->
                                   << local_wire(gen.gate_index, r.out[k][1]), r.out[k][2] >>]
              /\ next_copy' = next_copy + 1
              /\ gpc' = IF next_copy + 1 = gate.num_copies THEN "evaluate" ELSE "generate"
    /\ UNCHANGED << gate, debug_assertions, constraints, gate_index, eval_vars, shape_vars >>
    /\ UNCHANGED engine_vars
    /\ UNCHANGED size_vars

\* eval_unfiltered on the generated row
EvalUnfiltered ==
    /\ gpc = "evaluate"
    /\ constraints' = eval_unfiltered(gate, [slot \in DOMAIN local_wires |-> local_wires[slot][1]])
    /\ gpc' = "evaluated"
    /\ UNCHANGED << gate, debug_assertions, local_wires, next_copy, row_vars,
                    eval_vars, shape_vars >>
    /\ UNCHANGED engine_vars
    /\ UNCHANGED size_vars

GateNext ==
    \/ RunCopyGenerator
    \/ EvalUnfiltered

GateSpec == GateInit /\ [][GateNext]_vars

(***************************************************************************)
(* The evaluation modes of RandomAccessGate on one row.                    *)
(***************************************************************************)
\* the values a bit wire of the copy under study takes: 0, 1 and non-bits
BitWireVals == {0, 1, 2}

\* tests::get_wires: per copy the access index, the claimed element and the
\* list, then the bit wires of all copies
get_wires(g, lists, access_indices, claimed_elements, bit_vals) ==
    SetWires(InitialRow(g, access_indices, lists),
             [k \in 1 .. (g.num_copies * (1 + g.bits)) |->
                 LET copy == (k - 1) \div (1 + g.bits)
                     j == (k - 1) % (1 + g.bits)
                 IN  IF j = 0
                     THEN << wire_claimed_element(g, copy), claimed_elements[copy] >>
                     ELSE << wire_bit(g, j - 1, copy), bit_vals[copy][j - 1] >>])

\* the values of a row all of whose wires are set
RowValues(lw) == [slot \in DOMAIN lw |-> lw[slot][1]]

\* a pack of rows: the row itself and a second row in the same batch
PackOf(lw) == << lw, [slot \in DOMAIN lw |-> add(lw[slot], 1)] >>

\* arithmetic of PackedField: lane by lane
PackedAdd(x, y) == [k \in DOMAIN x |-> add(x[k], y[k])]
PackedSub(x, y) == [k \in DOMAIN x |-> sub(x[k], y[k])]
PackedMul(x, y) == [k \in DOMAIN x |-> mul(x[k], y[k])]
PackedConst(rows, c) == [k \in DOMAIN rows |-> c]

\* vars.local_wires[slot] of EvaluationVarsBasePacked
PackedWire(rows, slot) == [k \in DOMAIN rows |-> rows[k][slot]]

\* .map(|(&x, &y)| x + b * (y - x)) on packed values
PackedFoldOnce(list_items, b) ==
    [k \in 1 .. (Len(list_items) \div 2) |->
        PackedAdd(list_items[2 * k - 1],
                  PackedMul(b, PackedSub(list_items[2 * k], list_items[2 * k - 1])))]

RECURSIVE PackedFoldList(_, _)
PackedFoldList(list_items, bits) ==
    IF bits = << >> THEN list_items
    ELSE PackedFoldList(PackedFoldOnce(list_items, Head(bits)), Tail(bits))

\* bits.iter().rev().fold(P::ZEROS, |acc, &b| acc + acc + b)
RECURSIVE PackedReconstruct(_, _)
PackedReconstruct(rows, bits) ==
    IF bits = << >> THEN PackedConst(rows, 0)
    ELSE LET acc == PackedReconstruct(rows, Tail(bits))
         IN  PackedAdd(PackedAdd(acc, acc), Head(bits))

PackedEvalCopy(g, rows, copy) ==
    LET access_index == PackedWire(rows, wire_access_index(g, copy))
        list_items == [k \in 1 .. vec_size(g) |-> PackedWire(rows, wire_list_item(g, k - 1, copy))]
        claimed_element == PackedWire(rows, wire_claimed_element(g, copy))
        bits == [k \in 1 .. g.bits |-> PackedWire(rows, wire_bit(g, k - 1, copy))]
    IN  [k \in 1 .. g.bits |-> PackedMul(bits[k], PackedSub(bits[k], PackedConst(rows, 1)))]
        \o << PackedSub(PackedReconstruct(rows, bits), access_index) >>
        \o << PackedSub(PackedFoldList(list_items, bits)[1], claimed_element) >>

RECURSIVE PackedEvalFrom(_, _, _)
PackedEvalFrom(g, rows, copy) ==
    IF copy >= g.num_copies THEN << >>
    ELSE PackedEvalCopy(g, rows, copy) \o PackedEvalFrom(g, rows, copy + 1)

\* a per-row evaluator that evaluates
eval_unfiltered_base_one_PerRow(g, lw) == [panic |-> FALSE, yielded |-> eval_unfiltered(g, lw)]

\* panic!("use eval_unfiltered_base_packed instead"): the outcome and what
\* was handed to _yield_constr
eval_unfiltered_base_one(g, lw) == [panic |-> TRUE, yielded |-> << >>]

\* the values handed to yield_constr.one, in order; each is a packed value
eval_unfiltered_base_packed(g, rows) == PackedEvalFrom(g, rows, 0)

\* eval_unfiltered_base_batch: routed through the packed evaluator
eval_unfiltered_base_batch(g, rows) == eval_unfiltered_base_packed(g, rows)

\* CircuitBuilder arithmetic, by the value each emitted target computes
mul_sub_extension(a, b, c) == sub(mul(a, b), c)
mul_add_extension(a, b, c) == add(mul(a, b), c)
sub_extension(a, b) == sub(a, b)
select_ext_generalized(b, x, y) == mul_sub_extension(b, x, mul_sub_extension(b, y, y))

\* .map(|(&x, &y)| builder.select_ext_generalized(b, y, x))
RecursiveFoldOnce(list_items, b) ==
    [k \in 1 .. (Len(list_items) \div 2) |->
        select_ext_generalized(b, list_items[2 * k], list_items[2 * k - 1])]

RECURSIVE RecursiveFoldList(_, _)
RecursiveFoldList(list_items, bits) ==
    IF bits = << >> THEN list_items
    ELSE RecursiveFoldList(RecursiveFoldOnce(list_items, Head(bits)), Tail(bits))

\* bits.iter().rev().fold(zero, |acc, &b| builder.mul_add_extension(acc, two, b))
RECURSIVE RecursiveReconstruct(_)
RecursiveReconstruct(bits) ==
    IF bits = << >> THEN 0
    ELSE mul_add_extension(RecursiveReconstruct(Tail(bits)), 2, Head(bits))

RecursiveEvalCopy(g, lw, copy) ==
    LET access_index == lw[wire_access_index(g, copy)]
        list_items == [k \in 1 .. vec_size(g) |-> lw[wire_list_item(g, k - 1, copy)]]
        claimed_element == lw[wire_claimed_element(g, copy)]
        bits == [k \in 1 .. g.bits |-> lw[wire_bit(g, k - 1, copy)]]
    IN  [k \in 1 .. g.bits |-> mul_sub_extension(bits[k], bits[k], bits[k])]
        \o << sub_extension(RecursiveReconstruct(bits), access_index) >>
        \o << sub_extension(RecursiveFoldList(list_items, bits)[1], claimed_element) >>

RECURSIVE RecursiveEvalFrom(_, _, _)
RecursiveEvalFrom(g, lw, copy) ==
    IF copy >= g.num_copies THEN << >>
    ELSE RecursiveEvalCopy(g, lw, copy) \o RecursiveEvalFrom(g, lw, copy + 1)

eval_unfiltered_recursively(g, lw) == RecursiveEvalFrom(g, lw, 0)

(***************************************************************************)
(* EvalSpec: a row all of whose wires hold values (any access index,       *)
(* claimed element and bit wires and a list for one copy, a valid          *)
(* assignment for each other copy) is evaluated in every mode, one after   *)
(* the other.                                                              *)
(***************************************************************************)
\* the lists of the copy under study: any two entries, repeated with a
\* shift to the length of the list
EvalLists(g) ==
    { [i \in 0 .. (vec_size(g) - 1) |-> (pair[i % 2] + (i \div 2)) % P] :
         pair \in [0 .. 1 -> ListVals] }

EvalInit ==
    /\ engine_off
    /\ gate \in GateShapes
    /\ debug_assertions = TRUE
    /\ \E copy \in 0 .. (gate.num_copies - 1),
          access_index \in F,
          claimed_element \in F,
          list \in EvalLists(gate),
          bits \in [0 .. (gate.bits - 1) -> BitWireVals] :
            local_wires =
               get_wires(gate,
                         [c \in 0 .. (gate.num_copies - 1) |->
                             IF c = copy THEN list ELSE OtherList(gate, c)],
                         [c \in 0 .. (gate.num_copies - 1) |->
                             IF c = copy THEN access_index ELSE OtherIndex(gate, c)],
                         [c \in 0 .. (gate.num_copies - 1) |->
                             IF c = copy THEN claimed_element
                             ELSE OtherList(gate, c)[OtherIndex(gate, c)]],
                         [c \in 0 .. (gate.num_copies - 1) |->
                             IF c = copy THEN bits
                             ELSE [i \in 0 .. (gate.bits - 1) |-> BitOf(OtherIndex(gate, c), i)]])
    /\ next_copy = gate.num_copies
    /\ constraints = << >>
    /\ gpc = "evaluate"
    /\ gate_index = 0
    /\ out_buffer = << >>
    /\ eval_off
    /\ shape_off
    /\ size_off

EvalUnfilteredBasePacked ==
    /\ gpc = "evaluated"
    /\ next_copy = gate.num_copies
    /\ constraints_base_packed' =
          eval_unfiltered_base_packed(gate, PackOf(RowValues(local_wires)))
    /\ gpc' = "base_packed"
    /\ UNCHANGED << gate, debug_assertions, local_wires, next_copy, constraints, row_vars,
                    constraints_recursively, constraints_base_batch,
                    constraints_base_one, shape_vars >>
    /\ UNCHANGED engine_vars
    /\ UNCHANGED size_vars

EvalUnfilteredRecursively ==
    /\ gpc = "base_packed"
    /\ constraints_recursively' = eval_unfiltered_recursively(gate, RowValues(local_wires))
    /\ gpc' = "recursively"
    /\ UNCHANGED << gate, debug_assertions, local_wires, next_copy, constraints, row_vars,
                    constraints_base_packed, constraints_base_batch,
                    constraints_base_one, shape_vars >>
    /\ UNCHANGED engine_vars
    /\ UNCHANGED size_vars

EvalUnfilteredBaseBatch ==
    /\ gpc = "recursively"
    /\ constraints_base_batch' =
          eval_unfiltered_base_batch(gate, PackOf(RowValues(local_wires)))
    /\ gpc' = "base_batch"
    /\ UNCHANGED << gate, debug_assertions, local_wires, next_copy, constraints, row_vars,
                    constraints_base_packed, constraints_recursively,
                    constraints_base_one, shape_vars >>
    /\ UNCHANGED engine_vars
    /\ UNCHANGED size_vars

\* eval_unfiltered_base_one is invoked, on a row not evaluated yet or after
\* the other modes
EvalUnfilteredBaseOne ==
    /\ gpc \in {"evaluate", "base_batch"}
    /\ LET r == eval_unfiltered_base_one(gate, RowValues(local_wires))
       IN  /\ gpc' = IF r.panic THEN "base_one_panic" ELSE "base_one"
           /\ constraints_base_one' = r.yielded
    /\ UNCHANGED << gate, debug_assertions, local_wires, next_copy, constraints, row_vars,
                    constraints_base_packed, constraints_recursively,
                    constraints_base_batch, shape_vars >>
    /\ UNCHANGED engine_vars
    /\ UNCHANGED size_vars

EvalNext ==
    \/ EvalUnfiltered
    \/ EvalUnfilteredBasePacked
    \/ EvalUnfilteredRecursively
    \/ EvalUnfilteredBaseBatch
    \/ EvalUnfilteredBaseOne

EvalSpec == EvalInit /\ [][EvalNext]_vars

(***************************************************************************)
(* Properties of generate_partial_witness (Spec, FairSpec).                *)
(***************************************************************************)
GeneratorIndices == 1 .. Len(generators)

Terminated == pc \in {"done", "panic"}

Representatives == { representative_map[t] : t \in Targets }

Occurrences(seq, x) == Cardinality({ k \in 1 .. Len(seq) : seq[k] = x })

\* C1: a witness is returned only when remaining_generators is zero, that
\* is when every generator is expired; an empty worklist with an unexpired
\* generator left ends the run in a panic at the very next step, and a
\* panicked run returns nothing.
C1_ReturnsOnlyWhenAllExpired ==
    /\ [](pc = "done" =>
            /\ remaining_generators = 0
            /\ \A g \in GeneratorIndices : generator_is_expired[g])
    /\ [](pc = "panic" =>
            /\ pending_generator_indices = << >>
            /\ \E g \in GeneratorIndices : ~ generator_is_expired[g])
    /\ [][ (/\ pc = "while"
            /\ pending_generator_indices = << >>
            /\ \E g \in GeneratorIndices : ~ generator_is_expired[g])
           => pc' = "panic" ]_vars
    /\ [][ pc = "panic" => pc' = "panic" ]_vars

\* two generators that depend only on each other's output, nothing seeded
C1_Witness ==
    /\ pc = "panic"
    /\ generators = << CopyGenerator(0, 1), NonzeroTestGenerator(1, 0) >>
    /\ seeded = {}
    /\ representative_map = [t \in Targets |-> t]

Unassigned == Cardinality({ r \in Representatives : witness[r] = None })

\* what is left of the run, as a pair (passes that may still be begun,
\* steps left in the current pass), ordered lexicographically
Rank ==
    CASE pc = "seed" ->
            << 2 * Cardinality(Representatives) + 3, Len(inputs) + 1 >>
      [] pc = "while" ->
            << 2 * Unassigned + (IF pending_generator_indices # << >> THEN 2 ELSE 0), 1 >>
      [] pc = "for" ->
            << 2 * Unassigned + (IF next_pending_generator_indices # << >> THEN 2 ELSE 0) + 1,
               2 * (Len(pending_generator_indices) + 1 - pos) + 1 >>
      [] pc = "merge" ->
            << 2 * Unassigned + (IF next_pending_generator_indices # << >> THEN 2 ELSE 0) + 1,
               2 * (Len(pending_generator_indices) + 1 - pos) >>
      [] OTHER -> << 0, 0 >>

RankLess(a, b) == a[1] < b[1] \/ (a[1] = b[1] /\ a[2] < b[2])

\* C2: the pass loop ends.  Every step of the engine lowers Rank, a pair of
\* naturals, so no run has infinitely many steps; a pass after the first is
\* begun only when the pass before it newly populated a representative, so
\* at most one more pass than there are representatives is begun; and a
\* run that has not ended in "done" or "panic" can take a step.
C2_PassLoopEnds ==
    /\ [][ RankLess(Rank', Rank) ]_vars
    /\ [](Rank[1] >= 0 /\ Rank[2] >= 0)
    /\ [](pass <= Cardinality(Representatives) + 1)
    /\ [](pass >= 2 => populated_prev # {})
    /\ [](~ Terminated => ENABLED Next)

\* a general generator that returned false and emitted a value in every one
\* of several passes, and the run ended
C2_Witness ==
    /\ Terminated
    /\ pass >= 3
    /\ \E g \in GeneratorIndices :
         /\ generators[g].kind = "general"
         /\ ~ generator_is_expired[g]

\* C3: run_once of a one-shot generator is executed at most once, only when
\* all its dependencies are assigned; an expired generator is never invoked
\* again; when the run returns normally every one-shot generator's run_once
\* was executed exactly once.
C3_OneShotRunsOnce ==
    /\ [](\A g \in GeneratorIndices : run_once_calls[g] <= 1)
    /\ [][ \A g \in GeneratorIndices :
             run_once_calls'[g] # run_once_calls[g] =>
                /\ IsSimple(generators[g])
                /\ contains_all(witness, dependencies(generators[g]))
                /\ ~ generator_is_expired[g]
                /\ generator_is_expired'[g] ]_vars
    /\ [][ \A g \in GeneratorIndices :
             generator_is_expired[g] =>
                /\ generator_is_expired'[g]
                /\ ~ (run_calls'[g] > run_calls[g]) ]_vars
    /\ [](pc = "done" =>
            \A g \in GeneratorIndices :
               IsSimple(generators[g]) => run_once_calls[g] = 1)

\* the for loop stands on the index of a one-shot generator that completed
\* in the pass before, after the population of its dependency enqueued it
C3_Witness ==
    /\ pc = "for"
    /\ pass >= 2
    /\ pos <= Len(pending_generator_indices)
    /\ IsSimple(generators[generator_idx])
    /\ generator_is_expired[generator_idx]
    /\ run_once_calls[generator_idx] = 1
    /\ \E r \in populated_prev : Watches(generator_idx, r)

Triggered(count) == { g \in DOMAIN count : count[g] > 0 }

\* C4: the worklist of the first pass is every generator; the worklist of a
\* later pass holds exactly the generators that, in the pass before,
\* watched a representative at the moment a merge newly populated it and
\* were unexpired then.  Writes to a representative that already held a
\* value enqueue nobody.  Such a generator, if still unexpired when the
\* pass begins, is run in it.
C4_WorklistIsTriggered ==
    /\ pass = 1 => SeqToSet(pending_at_start) = GeneratorIndices
    /\ pass >= 2 => SeqToSet(pending_at_start) = Triggered(trigger_count_prev)
    /\ pc \in {"for", "merge"} =>
          SeqToSet(next_pending_generator_indices) \subseteq Triggered(trigger_count_now)
    /\ (pc = "while" /\ pass >= 1) =>
          /\ SeqToSet(pending_generator_indices) = Triggered(trigger_count_now)
          /\ populated_now = {} => pending_generator_indices = << >>
    /\ (pc = "while" /\ pass >= 2) =>
          \A g \in Triggered(trigger_count_prev) :
             ~ expired_at_start[g] => run_calls[g] >= 1

\* a general generator that returned false in the previous pass was
\* enqueued by a newly populated representative and has run again, while a
\* merge in that previous pass also wrote a representative that already
\* held a value
C4_Witness ==
    /\ pc = "while"
    /\ pass >= 2
    /\ \E g \in Triggered(trigger_count_prev) :
         /\ generators[g].kind = "general"
         /\ run_calls[g] >= 1
    /\ \E g \in GeneratorIndices : g \notin Triggered(trigger_count_prev)
    /\ overwritten # {}

\* C5: all Targets of an equivalence class read the same thing: either all
\* read no value or all read the same value; and right after a value was
\* set on a Target (seeding or merge) every Target of its class reads that
\* value.
C5_ClassReadsOneValue ==
    /\ \A t, u \in Targets :
          SameClass(t, u) => try_get_target(witness, t) = try_get_target(witness, u)
    /\ (last_write # None /\ pc # "merge") =>
          \A u \in Targets :
             SameClass(last_write[1][1], u) =>
                try_get_target(witness, u) = Some(last_write[1][2])
    /\ \A r \in Targets :
          witness[r] # None => r \in Representatives

\* a value set on one Target is read back through another Target of its
\* class, which is not the representative's own slot
C5_Witness ==
    /\ last_write # None
    /\ pc = "for"
    /\ \E u \in Targets :
         /\ u # last_write[1][1]
         /\ SameClass(last_write[1][1], u)
         /\ representative_map[u] # last_write[1][1]
         /\ try_get_target(witness, u) = Some(last_write[1][2])

DependsOn(g, h) ==
    \E d \in SeqToSet(dependencies(generators[g])), o \in outputs(generators[h]) :
       SameClass(d, o)

RECURSIVE ReachableIn(_, _, _)
\* h is reachable from g along DependsOn in 1 .. n steps
ReachableIn(g, h, n) ==
    IF n = 0 THEN FALSE
    ELSE \/ DependsOn(g, h)
         \/ \E k \in GeneratorIndices : DependsOn(g, k) /\ ReachableIn(k, h, n - 1)

WellFounded ==
    /\ \A g \in GeneratorIndices : IsSimple(generators[g])
    /\ \A g \in GeneratorIndices : ~ ReachableIn(g, g, Len(generators))
    /\ \A g \in GeneratorIndices :
          \A d \in SeqToSet(dependencies(generators[g])) :
             \/ \E t \in seeded : SameClass(d, t)
             \/ \E h \in GeneratorIndices \ {g} :
                   \E o \in outputs(generators[h]) : SameClass(d, o)

\* C7: a well-founded set of one-shot generators never ends in the panic:
\* wherever the generators stand in the list the run ends, with
\* remaining_generators zero, and returns.
C7_WellFoundedCompletes ==
    WellFounded =>
       /\ pc # "panic"
       /\ (pc = "while" /\ pending_generator_indices = << >>) => remaining_generators = 0
       /\ pc = "done" => remaining_generators = 0

\* A depends only on B's sole output and stands before B in the list
C7_Witness ==
    /\ pc = "done"
    /\ WellFounded
    /\ generators = << CopyGenerator(0, 1), RandomValueGenerator(0) >>
    /\ representative_map = [t \in Targets |-> t]
    /\ seeded = {}
    /\ pass = 2

\* C8 as stated: a generator that was unexpired and watching when a class
\* was newly populated in pass p is invoked exactly once in pass p + 1.
C8_Original ==
    (pc = "while" /\ pass >= 2) =>
       \A g \in Triggered(trigger_count_prev) : run_calls[g] = 1

\* C8 amended: each newly populated class adds exactly one worklist entry
\* for the next pass per watching generator that is unexpired at that
\* moment.  In the next pass the generator is invoked at most once per
\* entry, at least once if it is still unexpired when the pass begins, and
\* not at all if it expired before.
C8_OneEntryPerPopulatedClass ==
    /\ pass >= 2 =>
          \A g \in GeneratorIndices :
             /\ Occurrences(pending_at_start, g) = trigger_count_prev[g]
             /\ run_calls[g] <= trigger_count_prev[g]
             /\ expired_at_start[g] => run_calls[g] = 0
    /\ (pc = "while" /\ pass >= 2) =>
          \A g \in Triggered(trigger_count_prev) :
             ~ expired_at_start[g] => run_calls[g] >= 1
    /\ (pc = "while" /\ pass >= 1) =>
          \A g \in GeneratorIndices :
             Occurrences(pending_generator_indices, g) = trigger_count_now[g]

\* a generator that watched two classes newly populated in one pass was
\* invoked twice in the next
C8_Witness ==
    /\ pc = "while"
    /\ pass >= 2
    /\ \E g \in GeneratorIndices : trigger_count_prev[g] = 2 /\ run_calls[g] = 2

\* C9: a representative that holds a value holds a value after every step.
C9_AssignmentGrows ==
    [][ \A r \in Targets : witness[r] # None => witness'[r] # None ]_vars

\* a merge wrote a representative that already held a value
C9_Witness ==
    /\ pc = "for"
    /\ pass >= 1
    /\ overwritten # {}
    /\ \A r \in written_reps : witness[r] # None

(***************************************************************************)
(* The constraints as polynomials in the wires.  A monomial is a bag of    *)
(* slots, a polynomial a function from its monomials to their nonzero      *)
(* integer coefficients.                                                   *)
(***************************************************************************)
PolyZero == [mono \in {} |-> 0]

PolyConst(c) == IF c = 0 THEN PolyZero ELSE [mono \in {EmptyBag} |-> c]

\* vars.local_wires[slot] as an indeterminate
PolyWire(slot) == [mono \in {SetToBag({slot})} |-> 1]

Coeff(p, mono) == IF mono \in DOMAIN p THEN p[mono] ELSE 0

PolyAdd(p, q) ==
    [mono \in { x \in (DOMAIN p) \cup (DOMAIN q) : Coeff(p, x) + Coeff(q, x) # 0 } |->
        Coeff(p, mono) + Coeff(q, mono)]

PolySub(p, q) ==
    [mono \in { x \in (DOMAIN p) \cup (DOMAIN q) : Coeff(p, x) - Coeff(q, x) # 0 } |->
        Coeff(p, mono) - Coeff(q, mono)]

RECURSIVE SumOfProducts(_, _, _)
SumOfProducts(p, q, pairs) ==
    IF pairs = {} THEN 0
    ELSE LET pr == CHOOSE x \in pairs : TRUE
         IN  p[pr[1]] * q[pr[2]] + SumOfProducts(p, q, pairs \ {pr})

PolyMul(p, q) ==
    LET coeff(mono) ==
            SumOfProducts(p, q, { pr \in (DOMAIN p) \X (DOMAIN q) : pr[1] (+) pr[2] = mono })
        monos == { x (+) y : x \in DOMAIN p, y \in DOMAIN q }
    IN  [mono \in { x \in monos : coeff(x) # 0 } |-> coeff(mono)]

RECURSIVE MaxOf(_)
MaxOf(numbers) ==
    IF numbers = {} THEN 0
    ELSE LET n == CHOOSE x \in numbers : TRUE
             rest == MaxOf(numbers \ {n})
         IN  IF n > rest THEN n ELSE rest

\* the total degree of a polynomial
PolyDegree(p) == MaxOf({ BagCardinality(mono) : mono \in DOMAIN p })

\* x + b * (y - x)
SymbolicFoldOnce(list_items, b) ==
    [k \in 1 .. (Len(list_items) \div 2) |->
        PolyAdd(list_items[2 * k - 1],
                PolyMul(b, PolySub(list_items[2 * k], list_items[2 * k - 1])))]

RECURSIVE SymbolicFoldList(_, _)
SymbolicFoldList(list_items, bits) ==
    IF bits = << >> THEN list_items
    ELSE SymbolicFoldList(SymbolicFoldOnce(list_items, Head(bits)), Tail(bits))

\* acc.double() + b
RECURSIVE SymbolicReconstruct(_)
SymbolicReconstruct(bits) ==
    IF bits = << >> THEN PolyZero
    ELSE LET acc == SymbolicReconstruct(Tail(bits))
         IN  PolyAdd(PolyAdd(acc, acc), Head(bits))

\* the constraints of a copy, evaluated on indeterminates
SymbolicEvalCopy(g, copy) ==
    LET access_index == PolyWire(wire_access_index(g, copy))
        list_items == [k \in 1 .. vec_size(g) |-> PolyWire(wire_list_item(g, k - 1, copy))]
        claimed_element == PolyWire(wire_claimed_element(g, copy))
        bits == [k \in 1 .. g.bits |-> PolyWire(wire_bit(g, k - 1, copy))]
    IN  [k \in 1 .. g.bits |-> PolyMul(bits[k], PolySub(bits[k], PolyConst(1)))]
        \o << PolySub(SymbolicReconstruct(bits), access_index) >>
        \o << PolySub(SymbolicFoldList(list_items, bits)[1], claimed_element) >>

(***************************************************************************)
(* ShapeSpec: the declarations of a gate RandomAccessGate::new(bits,       *)
(* num_copies): first the slot of every wire, role by role, then the       *)
(* degree of every constraint, copy by copy.                               *)
(***************************************************************************)
ShapeGates == [bits : 1 .. MaxBits, num_copies : 1 .. MaxShapeCopies]

\* the wires of a copy by role: the access index, the claimed element, the
\* list items, the bits
RolesOfCopy(g, copy) ==
    << [kind |-> "access_index", copy |-> copy, i |-> 0],
       [kind |-> "claimed_element", copy |-> copy, i |-> 0] >>
    \o [k \in 1 .. vec_size(g) |-> [kind |-> "list_item", copy |-> copy, i |-> k - 1]]
    \o [k \in 1 .. g.bits |-> [kind |-> "bit", copy |-> copy, i |-> k - 1]]

RECURSIVE RolesFrom(_, _)
RolesFrom(g, copy) ==
    IF copy >= g.num_copies THEN << >>
    ELSE RolesOfCopy(g, copy) \o RolesFrom(g, copy + 1)

Roles(g) == RolesFrom(g, 0)

\* the slot the gate gives a role
WireOf(g, role) ==
    CASE role.kind = "access_index" -> wire_access_index(g, role.copy)
      [] role.kind = "claimed_element" -> wire_claimed_element(g, role.copy)
      [] role.kind = "list_item" -> wire_list_item(g, role.i, role.copy)
      [] role.kind = "bit" -> wire_bit(g, role.i, role.copy)

ShapeInit ==
    /\ engine_off
    /\ gate \in ShapeGates
    /\ debug_assertions = TRUE
    /\ local_wires = << >>
    /\ next_copy = 0
    /\ constraints = << >>
    /\ gpc = "layout"
    /\ gate_index = 0
    /\ out_buffer = << >>
    /\ eval_off
    /\ shape_off
    /\ size_off

\* the wire function of the next role is applied
LayoutWire ==
    /\ gpc = "layout"
    /\ LET role == Roles(gate)[Len(layout) + 1]
       IN  layout' = Append(layout, [role |-> role, slot |-> WireOf(gate, role)])
    /\ gpc' = IF Len(layout) + 1 = Len(Roles(gate)) THEN "symbolic" ELSE "layout"
    /\ UNCHANGED << gate, debug_assertions, local_wires, next_copy, constraints, row_vars,
                    eval_vars, symbolic >>
    /\ UNCHANGED engine_vars
    /\ UNCHANGED size_vars

\* the constraints of the next copy are evaluated on indeterminates
SymbolicCopy ==
    /\ gpc = "symbolic"
    /\ LET polys == SymbolicEvalCopy(gate, next_copy)
       IN  symbolic' = symbolic \o [k \in 1 .. Len(polys) |-> PolyDegree(polys[k])]
    /\ next_copy' = next_copy + 1
    /\ gpc' = IF next_copy + 1 = gate.num_copies THEN "declared" ELSE "symbolic"
    /\ UNCHANGED << gate, debug_assertions, local_wires, constraints, row_vars,
                    eval_vars, layout >>
    /\ UNCHANGED engine_vars
    /\ UNCHANGED size_vars

ShapeNext ==
    \/ LayoutWire
    \/ SymbolicCopy

ShapeSpec == ShapeInit /\ [][ShapeNext]_vars

(***************************************************************************)
(* usize arithmetic.  A subtraction below zero panics where overflow       *)
(* checks are compiled in (they go with debug_assertions) and wraps        *)
(* modulo 2^UsizeWidth where they are not.  A result is an Option: None    *)
(* is the panic.                                                           *)
(***************************************************************************)
UsizeWidth == 8

UsizeModulus == 2 ^ UsizeWidth

wrapping(n) == n % UsizeModulus

usize_sub(a, b, overflow_checks) ==
    IF a >= b THEN Some(a - b)
    ELSE IF overflow_checks THEN None
    ELSE Some(wrapping(a - b))

MinOf(a, b) == IF a <= b THEN a ELSE b

(***************************************************************************)
(* ConfigSpec: RandomAccessGate::new_from_config on a configuration, then  *)
(* num_routed_wires() and num_wires() of the gate it returns.              *)
(***************************************************************************)
MaxConfigWires == 13
MaxConfigBits == 2

Configs ==
    { c \in [num_wires : 0 .. MaxConfigWires, num_routed_wires : 0 .. MaxConfigWires] :
         c.num_routed_wires <= c.num_wires }

\* let max_copies = (config.num_routed_wires / (2 + vec_size))
\*                     .min(config.num_wires / (2 + vec_size + bits));
new_from_config(c, bits) ==
    LET vec_size_ == Pow2(bits)
        max_copies == MinOf(c.num_routed_wires \div (2 + vec_size_),
                            c.num_wires \div (2 + vec_size_ + bits))
    IN  [bits |-> bits, num_copies |-> max_copies]

\* num_routed_wires() in usize
num_routed_wires_usize(g) == Some(wrapping((2 + vec_size(g)) * g.num_copies))

\* num_wires() in usize: self.wire_bit(self.bits - 1, self.num_copies - 1) + 1,
\* with the debug_assert!s of wire_bit (i < bits, copy < num_copies)
num_wires_usize(g, debug) ==
    LET i == usize_sub(g.bits, 1, debug)
        copy == usize_sub(g.num_copies, 1, debug)
    IN  IF i = None \/ copy = None THEN None
        ELSE IF debug /\ ~ (i[1] < g.bits /\ copy[1] < g.num_copies) THEN None
        ELSE Some(wrapping(wrapping(wrapping(start_of_intermediate_wires(g))
                                    + wrapping(copy[1] * g.bits) + i[1]) + 1))

ConfigInit ==
    /\ engine_off
    /\ gate = [bits |-> 1, num_copies |-> 1]
    /\ debug_assertions \in BOOLEAN
    /\ local_wires = << >>
    /\ next_copy = 0
    /\ constraints = << >>
    /\ gpc = "config"
    /\ gate_index = 0
    /\ out_buffer = << >>
    /\ eval_off
    /\ shape_off
    /\ config \in Configs
    /\ bits_arg \in 0 .. MaxConfigBits
    /\ measured = << >>
    /\ stark = << >>
    /\ stark_out = << >>

\* RandomAccessGate::new_from_config(&config, bits)
NewFromConfig ==
    /\ gpc = "config"
    /\ gate' = new_from_config(config, bits_arg)
    /\ gpc' = "sized"
    /\ UNCHANGED << debug_assertions, local_wires, next_copy, constraints, row_vars,
                    eval_vars, shape_vars, config, bits_arg, measured, stark, stark_out >>
    /\ UNCHANGED engine_vars

\* gate.num_routed_wires()
NumRoutedWires ==
    /\ gpc = "sized"
    /\ measured' = Append(measured, num_routed_wires_usize(gate))
    /\ gpc' = "routed"
    /\ UNCHANGED << gate, debug_assertions, local_wires, next_copy, constraints, row_vars,
                    eval_vars, shape_vars, config, bits_arg, stark, stark_out >>
    /\ UNCHANGED engine_vars

\* gate.num_wires()
NumWires ==
    /\ gpc = "routed"
    /\ LET n == num_wires_usize(gate, debug_assertions)
       IN  /\ measured' = Append(measured, n)
           /\ gpc' = IF n = None THEN "panic" ELSE "measured"
    /\ UNCHANGED << gate, debug_assertions, local_wires, next_copy, constraints, row_vars,
                    eval_vars, shape_vars, config, bits_arg, stark, stark_out >>
    /\ UNCHANGED engine_vars

ConfigNext ==
    \/ NewFromConfig
    \/ NumRoutedWires
    \/ NumWires

ConfigSpec == ConfigInit /\ [][ConfigNext]_vars

(***************************************************************************)
(* StarkSpec: the sizing functions of a Stark, called one after another:   *)
(* quotient_degree_factor(), permutation_batch_size(),                     *)
(* num_permutation_batches(config).                                        *)
(***************************************************************************)
MaxDegree == 4
MaxPairs == 2
MaxChallenges == 2

Starks ==
    [constraint_degree : 0 .. MaxDegree, num_pairs : 0 .. MaxPairs,
     num_challenges : 1 .. MaxChallenges]

usize_max(a, b) == IF a >= b THEN a ELSE b

\* 1.max(self.constraint_degree() - 1)
quotient_degree_factor(st, overflow_checks) ==
    LET m == usize_sub(st.constraint_degree, 1, overflow_checks)
    IN  IF m = None THEN None ELSE Some(usize_max(1, m[1]))

\* self.quotient_degree_factor()
permutation_batch_size(st, overflow_checks) == quotient_degree_factor(st, overflow_checks)

\* self.permutation_pairs().len() * config.num_challenges
num_permutation_instances(st) == wrapping(st.num_pairs * st.num_challenges)

\* plonky2_util::ceil_div_usize(a, b): (a + b - 1) / b in usize
ceil_div_usize(a, b, overflow_checks) ==
    IF b = 0 THEN None
    ELSE IF a + b - 1 >= UsizeModulus /\ overflow_checks THEN None
    ELSE Some(wrapping(a + b - 1) \div b)

num_permutation_batches(st, overflow_checks) ==
    LET size == permutation_batch_size(st, overflow_checks)
    IN  IF size = None THEN None
        ELSE ceil_div_usize(num_permutation_instances(st), size[1], overflow_checks)

StarkInit ==
    /\ engine_off
    /\ gate = [bits |-> 1, num_copies |-> 1]
    /\ debug_assertions \in BOOLEAN
    /\ local_wires = << >>
    /\ next_copy = 0
    /\ constraints = << >>
    /\ gpc = "stark"
    /\ gate_index = 0
    /\ out_buffer = << >>
    /\ eval_off
    /\ shape_off
    /\ config = << >>
    /\ bits_arg = 0
    /\ measured = << >>
    /\ stark \in Starks
    /\ stark_out = << >>

\* stark.quotient_degree_factor(); a panic ends the calls
QuotientDegreeFactor ==
    /\ gpc = "stark"
    /\ LET r == quotient_degree_factor(stark, debug_assertions)
       IN  /\ stark_out' = Append(stark_out, r)
           /\ gpc' = IF r = None THEN "panic" ELSE "quotient"
    /\ UNCHANGED << gate, debug_assertions, local_wires, next_copy, constraints, row_vars,
                    eval_vars, shape_vars, config, bits_arg, measured, stark >>
    /\ UNCHANGED engine_vars

\* stark.permutation_batch_size()
PermutationBatchSize ==
    /\ gpc = "quotient"
    /\ LET r == permutation_batch_size(stark, debug_assertions)
       IN  /\ stark_out' = Append(stark_out, r)
           /\ gpc' = IF r = None THEN "panic" ELSE "batch_size"
    /\ UNCHANGED << gate, debug_assertions, local_wires, next_copy, constraints, row_vars,
                    eval_vars, shape_vars, config, bits_arg, measured, stark >>
    /\ UNCHANGED engine_vars

\* stark.num_permutation_batches(&config)
NumPermutationBatches ==
    /\ gpc = "batch_size"
    /\ LET r == num_permutation_batches(stark, debug_assertions)
       IN  /\ stark_out' = Append(stark_out, r)
           /\ gpc' = IF r = None THEN "panic" ELSE "batches"
    /\ UNCHANGED << gate, debug_assertions, local_wires, next_copy, constraints, row_vars,
                    eval_vars, shape_vars, config, bits_arg, measured, stark >>
    /\ UNCHANGED engine_vars

StarkNext ==
    \/ QuotientDegreeFactor
    \/ PermutationBatchSize
    \/ NumPermutationBatches

StarkSpec == StarkInit /\ [][StarkNext]_vars

(***************************************************************************)
(* Properties of the random-access gate (GateSpec).                        *)
(***************************************************************************)
Copies == 0 .. (gate.num_copies - 1)

WireValue(slot) == local_wires[slot][1]

AccessIndexOf(copy) == WireValue(wire_access_index(gate, copy))

\* the bits + 2 constraint values of a copy
ConstraintsOfCopy(copy) ==
    SubSeq(constraints, copy * (gate.bits + 2) + 1, (copy + 1) * (gate.bits + 2))

\* the number whose little-endian binary digits are bit wires i, i+1, ...
RECURSIVE BitWiresFrom(_, _)
BitWiresFrom(copy, i) ==
    IF i >= gate.bits THEN 0
    ELSE WireValue(wire_bit(gate, i, copy)) + 2 * BitWiresFrom(copy, i + 1)

\* C10: for every copy whose access index is in [0, 2^bits), the generator
\* wrote the list entry at the index to the claimed-element wire and the
\* little-endian binary digits of the index to the bit wires, and with
\* these values all bits + 2 constraints of the copy evaluate to zero.
C10_GeneratedRowVanishes ==
    gpc = "evaluated" =>
       \A copy \in Copies :
          AccessIndexOf(copy) < vec_size(gate) =>
             /\ WireValue(wire_claimed_element(gate, copy))
                   = WireValue(wire_list_item(gate, AccessIndexOf(copy), copy))
             /\ \A i \in 0 .. (gate.bits - 1) :
                   WireValue(wire_bit(gate, i, copy)) \in {0, 1}
             /\ BitWiresFrom(copy, 0) = AccessIndexOf(copy)
             /\ Len(ConstraintsOfCopy(copy)) = gate.bits + 2
             /\ \A k \in 1 .. (gate.bits + 2) : ConstraintsOfCopy(copy)[k] = 0

\* the second copy of a gate with four-entry lists selected entry 2 (bits
\* 0, 1), which differs from its neighbours, and the row was evaluated
C10_Witness ==
    /\ gpc = "evaluated"
    /\ gate = [bits |-> 2, num_copies |-> 2]
    /\ AccessIndexOf(1) = 2
    /\ WireValue(wire_list_item(gate, 2, 1)) = 1
    /\ WireValue(wire_list_item(gate, 0, 1)) = 0
    /\ WireValue(wire_list_item(gate, 1, 1)) = 0
    /\ WireValue(wire_list_item(gate, 3, 1)) = 0
    /\ WireValue(wire_claimed_element(gate, 1)) = 1
    /\ WireValue(wire_bit(gate, 0, 1)) = 0
    /\ WireValue(wire_bit(gate, 1, 1)) = 1

(***************************************************************************)
(* Properties of the gate's evaluation (EvalSpec).                         *)
(***************************************************************************)
AllZero(values) == \A k \in 1 .. Len(values) : values[k] = 0

BitWiresBoolean(copy) ==
    \A i \in 0 .. (gate.bits - 1) : WireValue(wire_bit(gate, i, copy)) \in {0, 1}

\* the bit wires hold the little-endian bits of an access index in range
BitsHoldIndex(copy) ==
    /\ AccessIndexOf(copy) < vec_size(gate)
    /\ BitWiresBoolean(copy)
    /\ BitWiresFrom(copy, 0) = AccessIndexOf(copy)

ClaimedElementOf(copy) == WireValue(wire_claimed_element(gate, copy))

ListItemOf(i, copy) == WireValue(wire_list_item(gate, i, copy))

\* C11: on a row whose bit wires hold the bits of each copy's access index
\* in [0, 2^bits), all constraints are zero exactly when every claimed
\* element is the list entry at its index (so a claimed element that
\* differs leaves a nonzero constraint).  On any row, if the constraints of
\* a copy all vanish then its bit wires are 0 or 1, they reconstruct the
\* access index, and the claimed element is the list entry they select.
C11_ConstraintsVanishIffCorrect ==
    constraints # << >> =>
       /\ (\A copy \in Copies : BitsHoldIndex(copy)) =>
             ( AllZero(constraints)
               <=> \A copy \in Copies :
                      ClaimedElementOf(copy) = ListItemOf(AccessIndexOf(copy), copy) )
       /\ \A copy \in Copies :
             AllZero(ConstraintsOfCopy(copy)) =>
                /\ BitWiresBoolean(copy)
                /\ BitWiresFrom(copy, 0) = AccessIndexOf(copy)
                /\ ClaimedElementOf(copy) = ListItemOf(BitWiresFrom(copy, 0), copy)

\* a two-bit gate with correct bit wires everywhere and a wrong claimed
\* element on its second copy has been evaluated to a nonzero constraint
C11_Witness ==
    /\ gpc = "evaluated"
    /\ gate.bits = 2
    /\ gate.num_copies = 2
    /\ \A copy \in Copies : BitsHoldIndex(copy)
    /\ AccessIndexOf(1) = 2
    /\ ClaimedElementOf(1) # ListItemOf(2, 1)
    /\ ~ AllZero(constraints)
    /\ AllZero(ConstraintsOfCopy(0))

\* the constraint values of one row of the pack
LaneOf(packed, lane) == [k \in 1 .. Len(packed) |-> packed[k][lane]]

\* C13: on every row, eval_unfiltered, eval_unfiltered_base_packed (row by
\* row of the pack) and eval_unfiltered_recursively give the same
\* constraint values in the same order.
C13_ModesAgree ==
    constraints_recursively # << >> =>
       /\ constraints_recursively = constraints
       /\ LaneOf(constraints_base_packed, 1) = constraints
       /\ LaneOf(constraints_base_packed, 2)
             = eval_unfiltered(gate, PackOf(RowValues(local_wires))[2])

\* the three modes were applied to a row with a bit wire that is no bit
\* and gave nonzero boolean, reconstruction and fold constraints
C13_Witness ==
    /\ gpc = "recursively"
    /\ gate.bits = 2
    /\ gate.num_copies = 2
    /\ WireValue(wire_bit(gate, 1, 1)) = 2
    /\ constraints_recursively[gate.bits + 2 + 2] # 0
    /\ constraints_recursively[gate.bits + 2 + 3] # 0
    /\ constraints_base_packed[2 * (gate.bits + 2)][1] # 0

ModP(x) == ((x % P) + P) % P

BitWireOf(j, copy) == WireValue(wire_bit(gate, j, copy))

\* the weight the bit wires give list entry i: the product over the bit
\* positions j of b_j where i has a 1 and of 1 - b_j where it has a 0
RECURSIVE SelectorWeight(_, _, _)
SelectorWeight(copy, i, j) ==
    IF j >= gate.bits THEN 1
    ELSE (IF (i \div Pow2(j)) % 2 = 1 THEN BitWireOf(j, copy) ELSE 1 - BitWireOf(j, copy))
         * SelectorWeight(copy, i, j + 1)

\* the list entry the bit wires select: the sum of the weighted entries
RECURSIVE SelectedFrom(_, _)
SelectedFrom(copy, i) ==
    IF i >= vec_size(gate) THEN 0
    ELSE ListItemOf(i, copy) * SelectorWeight(copy, i, 0) + SelectedFrom(copy, i + 1)

\* the k-th value a copy contributes, k in 1 .. bits + 2
ExpectedConstraint(copy, k) ==
    IF k <= gate.bits
    THEN ModP(BitWireOf(k - 1, copy) * (BitWireOf(k - 1, copy) - 1))
    ELSE IF k = gate.bits + 1
    THEN ModP(BitWiresFrom(copy, 0) - AccessIndexOf(copy))
    ELSE ModP(SelectedFrom(copy, 0) - ClaimedElementOf(copy))

\* values is the list of the expected values, copy by copy
InDeclaredOrder(values) ==
    /\ Len(values) = num_constraints(gate)
    /\ \A copy \in Copies : \A k \in 1 .. (gate.bits + 2) :
          values[copy * (gate.bits + 2) + k] = ExpectedConstraint(copy, k)

\* C14: every evaluation mode emits exactly num_constraints() =
\* num_copies * (bits + 2) values: per copy the bits boolean checks, then
\* the index reconstruction check, then the check that the folded list is
\* the claimed element.
C14_CountAndOrder ==
    /\ num_constraints(gate) = gate.num_copies * (gate.bits + 2)
    /\ constraints # << >> => InDeclaredOrder(constraints)
    /\ constraints_base_packed # << >> => InDeclaredOrder(LaneOf(constraints_base_packed, 1))
    /\ constraints_recursively # << >> => InDeclaredOrder(constraints_recursively)
    /\ constraints_base_batch # << >> => InDeclaredOrder(LaneOf(constraints_base_batch, 1))

\* all modes have evaluated a row of a two-bit, two-copy gate whose second
\* copy fails a boolean check, the reconstruction and the fold check
C14_Witness ==
    /\ gpc = "base_batch"
    /\ gate.bits = 2
    /\ gate.num_copies = 2
    /\ Len(constraints_base_batch) = 8
    /\ constraints[5] = 0
    /\ constraints[6] # 0
    /\ constraints[7] # 0
    /\ constraints[8] # 0
    /\ AllZero(ConstraintsOfCopy(0))

\* C16: eval_unfiltered_base_one panics on every row, before or after the
\* other modes, and hands no value to its consumer; the result of
\* eval_unfiltered_base_batch is the result of the packed evaluator, and
\* the batch evaluation does not end in that panic.
C16_BaseOnePanics ==
    /\ eval_unfiltered_base_one(gate, RowValues(local_wires)).panic
    /\ gpc # "base_one"
    /\ constraints_base_one = << >>
    /\ gpc = "base_batch" =>
          /\ constraints_base_batch # << >>
          /\ constraints_base_batch = constraints_base_packed
    /\ gpc = "base_one_panic" =>
          constraints_base_batch \in {<< >>, constraints_base_packed}

\* eval_unfiltered_base_one has panicked after the batch evaluation of a
\* row with nonzero constraints returned the values of the packed one
C16_Witness ==
    /\ gpc = "base_one_panic"
    /\ constraints_base_batch # << >>
    /\ constraints_base_batch = constraints_base_packed
    /\ ~ AllZero(LaneOf(constraints_base_batch, 1))
    /\ constraints_base_one = << >>

(***************************************************************************)
(* Properties of RandomAccessGenerator (GateSpec).                         *)
(***************************************************************************)
\* C12: a generator that ran with an access index >= 2^bits did not
\* complete: every copy whose generator filled its claimed-element and bit
\* wires had an access index in [0, 2^bits).
C12_Original ==
    gpc \in {"generate", "evaluate", "evaluated", "panic"} =>
       \A copy \in Copies :
          copy < next_copy => AccessIndexOf(copy) < vec_size(gate)

(***************************************************************************)
(* Properties of the gate's declarations (ShapeSpec).                      *)
(***************************************************************************)
\* C15: degree() is bits + 1 and no constraint, as a polynomial in the
\* wires, has a higher degree: the boolean checks have degree 2, the index
\* reconstruction degree 1, the fold check degree exactly bits + 1; the
\* gate with bits = 4 and num_copies = 4 declares 5.
C15_DegreeBoundsConstraints ==
    /\ degree(gate) = gate.bits + 1
    /\ gate = [bits |-> 4, num_copies |-> 4] => degree(gate) = 5
    /\ \A k \in 1 .. Len(symbolic) : symbolic[k] <= degree(gate)
    /\ Len(symbolic) = next_copy * (gate.bits + 2) =>
          \A copy \in 0 .. (next_copy - 1) :
             /\ \A j \in 1 .. gate.bits : symbolic[copy * (gate.bits + 2) + j] = 2
             /\ symbolic[copy * (gate.bits + 2) + gate.bits + 1] = 1
             /\ symbolic[copy * (gate.bits + 2) + gate.bits + 2] = gate.bits + 1

\* the 24 constraints of RandomAccessGate::new(4, 4) have been evaluated
\* on indeterminates; the last has degree 5
C15_Witness ==
    /\ gpc = "declared"
    /\ gate = [bits |-> 4, num_copies |-> 4]
    /\ Len(symbolic) = 24
    /\ symbolic[24] = 5

(***************************************************************************)
(* The engine as a function of the generator list (OrderSpec): the run of  *)
(* generate_partial_witness on a list gens of deterministic generators,    *)
(* from a state st = [w, expired, next, clash, wrote].  clash records a    *)
(* write that changed the value of a representative, wrote the             *)
(* representatives written by generators and whether two generators wrote  *)
(* different values to one of them (twice).                                *)
(***************************************************************************)
\* the indices in gens of the generators that watch a Target of the class
ListWatchers(gens, rep_index) ==
    SelectSeq([k \in 1 .. Len(gens) |-> k],
              LAMBDA i : \E t \in SeqToSet(watch_list(gens[i])) :
                            representative_map[target_index(t)] = rep_index)

\* the merge of a buffer, pair by pair
RECURSIVE ListMerge(_, _, _)
ListMerge(gens, st, buf) ==
    IF buf = << >> THEN st
    ELSE LET tv == Head(buf)
             rep_index == representative_map[target_index(tv[1])]
             s == set_target_returning_rep(st.w, tv[1], tv[2])
             differs == st.w[rep_index] # None /\ st.w[rep_index] # Some(tv[2])
         IN  ListMerge(gens,
                       [ w |-> s.witness,
                         expired |-> st.expired,
                         next |-> st.next
                                  \o (IF s.rep = None THEN << >>
                                      ELSE SelectSeq(ListWatchers(gens, s.rep[1]),
                                                     LAMBDA i : ~ st.expired[i])),
                         clash |-> st.clash \/ differs,
                         wrote |-> st.wrote \cup {rep_index},
                         twice |-> st.twice \/ (differs /\ rep_index \in st.wrote) ],
                       Tail(buf))

\* the for loop over the rest of a worklist
RECURSIVE ListPass(_, _, _)
ListPass(gens, st, pending) ==
    IF pending = << >> THEN st
    ELSE IF st.expired[Head(pending)] THEN ListPass(gens, st, Tail(pending))
    ELSE LET r == CHOOSE r \in run(gens[Head(pending)], st.w) : TRUE
             ran == [st EXCEPT !.expired[Head(pending)] = r.finished]
         IN  ListPass(gens, ListMerge(gens, ran, r.out), Tail(pending))

\* the while loop
RECURSIVE ListLoop(_, _, _)
ListLoop(gens, st, pending) ==
    IF pending = << >> THEN st
    ELSE LET after == ListPass(gens, [st EXCEPT !.next = << >>], pending)
         IN  ListLoop(gens, after, after.next)

RECURSIVE SeedAll(_, _)
SeedAll(w, ins) ==
    IF ins = << >> THEN w
    ELSE SeedAll(set_target(w, Head(ins)[1], Head(ins)[2]), Tail(ins))

ListState(w, expired, next) ==
    [w |-> w, expired |-> expired, next |-> next, clash |-> FALSE, wrote |-> {}, twice |-> FALSE]

\* the whole run on gens from the witness w with the inputs ins to seed
ListRun(gens, w, ins) ==
    ListLoop(gens,
             ListState(SeedAll(w, ins), [g \in 1 .. Len(gens) |-> FALSE], << >>),
             [k \in 1 .. Len(gens) |-> k])

\* success or deadlock, and on success the value of every representative
OutcomeOf(st) ==
    IF \A g \in DOMAIN st.expired : st.expired[g]
    THEN [ok |-> TRUE, w |-> st.w]
    ELSE [ok |-> FALSE, w |-> << >>]

\* the orderings of the generator list
Orderings ==
    { [k \in 1 .. Len(generators) |-> generators[f[k]]] :
         f \in { f \in [1 .. Len(generators) -> 1 .. Len(generators)] :
                    \A j, k \in 1 .. Len(generators) : j # k => f[j] # f[k] } }

\* the run of an ordering of the list on the call's inputs
RunOf(gens) == ListRun(gens, [t \in Targets |-> None], given_inputs)

\* what the call did: it returned the witness, or it panicked
ActualOutcome ==
    IF pc = "done" THEN [ok |-> TRUE, w |-> witness] ELSE [ok |-> FALSE, w |-> << >>]

\* C17 as stated: if in no ordering two generators write different values
\* to one representative, the run of every ordering of the generator list
\* has the outcome of the call.
C17_Original ==
    Terminated =>
       ( (\A gens \in Orderings : ~ RunOf(gens).twice)
         => \A gens \in Orderings : OutcomeOf(RunOf(gens)) = ActualOutcome )

\* C17 amended: if in no ordering a write, by a generator or an input,
\* changes the value a representative holds, the run of every ordering of
\* the generator list has the outcome of the call: success or deadlock,
\* and on success the value of every representative.
C17_OrderIndependentWithoutClash ==
    Terminated =>
       ( (\A gens \in Orderings : ~ RunOf(gens).clash)
         => \A gens \in Orderings : OutcomeOf(RunOf(gens)) = ActualOutcome )

\* the list Copy(0, 1), NonzeroTest(1, 0) with Target 1 given the value 1
\* has returned after two passes; the other ordering needs one pass; in
\* neither did a write change a value
C17_Witness ==
    /\ pc = "done"
    /\ generators = << CopyGenerator(0, 1), NonzeroTestGenerator(1, 0) >>
    /\ representative_map = [t \in Targets |-> t]
    /\ seeded = {1}
    /\ pass = 2
    /\ witness[0] = Some(1)
    /\ witness[1] = Some(1)
    /\ given_inputs = << << 1, 1 >> >>
    /\ \A gens \in Orderings : ~ RunOf(gens).clash

(***************************************************************************)
(* Writes that disagree with the value a representative holds.            *)
(***************************************************************************)
\* the (Target, value) pairs the step about to be taken writes: one input
\* while seeding, the drained buffer in the merge
StepWrites ==
    IF pc = "seed" /\ inputs # << >> THEN << Head(inputs) >>
    ELSE IF pc = "merge" THEN buffer
    ELSE << >>

RepOf(tv) == representative_map[target_index(tv[1])]

\* the value of the last pair of ws addressed to the representative r
LastValueFor(ws, r) ==
    LET ks == { k \in 1 .. Len(ws) : RepOf(ws[k]) = r }
    IN  ws[CHOOSE k \in ks : \A j \in ks : j <= k][2]

\* a pair of ws gives its representative a value other than the one it
\* holds, or other than the one an earlier pair of ws gave it
Mismatch(ws) ==
    \E k \in 1 .. Len(ws) :
       \/ witness[RepOf(ws[k])] \notin { None, Some(ws[k][2]) }
       \/ \E j \in 1 .. (k - 1) : RepOf(ws[j]) = RepOf(ws[k]) /\ ws[j][2] # ws[k][2]

\* C18: a step whose writes disagree with a held value raises nothing (the
\* run goes on with the next input or the next generator of the pass) and
\* leaves every representative it addresses with the value written last.
C18_LastWriteWins ==
    [][ Mismatch(StepWrites) =>
           /\ pc' \in {"seed", "for"}
           /\ \A k \in 1 .. Len(StepWrites) :
                 witness'[RepOf(StepWrites[k])]
                    = Some(LastValueFor(StepWrites, RepOf(StepWrites[k]))) ]_vars

\* the list Copy(0, 1), NonzeroTest(1, 0) with Target 0 given 0: Copy writes
\* the 0 to Target 1, NonzeroTest then writes 1 over the 0 that Target 0
\* holds, and the run returns
C18_Witness ==
    /\ pc = "done"
    /\ generators = << CopyGenerator(0, 1), NonzeroTestGenerator(1, 0) >>
    /\ representative_map = [t \in Targets |-> t]
    /\ seeded = {0}
    /\ 0 \in overwritten
    /\ last_write = Some(<< 0, 1 >>)
    /\ witness[0] = Some(1)
    /\ witness[1] = Some(0)

(***************************************************************************)
(* The generators of a gate: what they watch and what they write.         *)
(***************************************************************************)
\* the Wires of the row of gate_index at the given slots
WiresAt(slots) == { local_wire(gate_index, slot) : slot \in slots }

AccessAndListSlots(copy) ==
    { wire_access_index(gate, copy) }
    \cup { wire_list_item(gate, i, copy) : i \in 0 .. (vec_size(gate) - 1) }

ClaimedAndBitSlots(copy) ==
    { wire_claimed_element(gate, copy) }
    \cup { wire_bit(gate, j, copy) : j \in 0 .. (gate.bits - 1) }

\* C19: the gate on row gate_index has num_copies generators, the k-th of
\* copy k on that row; the generator of a copy watches the access index
\* wire and the 2^bits list item wires of the copy on the row, each once;
\* a run of it puts in its buffer the claimed element wire and the bits bit
\* wires of the copy on the row, each once, and the merge changes those
\* slots of the row and no other.
C19_GeneratorFrame ==
    [][ (gpc = "generate" /\ next_copy' = next_copy + 1) =>
          LET gens == gate_generators(gate, gate_index)
              gen == gens[next_copy + 1]
              watched == { watch_wires(gen)[k] : k \in 1 .. Len(watch_wires(gen)) }
              written == { out_buffer'[k][1] : k \in 1 .. Len(out_buffer') }
          IN  /\ Len(gens) = gate.num_copies
              /\ \A k \in 1 .. Len(gens) :
                    gens[k].copy = k - 1 /\ gens[k].gate_index = gate_index
              /\ watched = WiresAt(AccessAndListSlots(next_copy))
              /\ Len(watch_wires(gen)) = 1 + Pow2(gate.bits)
              /\ Cardinality(watched) = 1 + Pow2(gate.bits)
              /\ written = WiresAt(ClaimedAndBitSlots(next_copy))
              /\ Len(out_buffer') = 1 + gate.bits
              /\ Cardinality(written) = 1 + gate.bits
              /\ written \cap watched = {}
              /\ \A slot \in DOMAIN local_wires :
                    (local_wires'[slot] # local_wires[slot])
                       <=> slot \in ClaimedAndBitSlots(next_copy) ]_vars

\* a gate of two copies on row 1 both of whose generators ran
C19_Witness ==
    /\ gpc = "evaluate"
    /\ gate = [bits |-> 2, num_copies |-> 2]
    /\ gate_index = 1
    /\ next_copy = 2
    /\ { out_buffer[k][1] : k \in 1 .. Len(out_buffer) } = WiresAt(ClaimedAndBitSlots(1))
    /\ \A slot \in DOMAIN local_wires : local_wires[slot] # None

(***************************************************************************)
(* The role-to-slot mapping (ShapeSpec).                                   *)
(***************************************************************************)
RoutedKinds == {"access_index", "claimed_element", "list_item"}

LayoutSlots == { layout[k].slot : k \in 1 .. Len(layout) }

\* C20: the slots given to the roles laid out so far are pairwise distinct;
\* access index, claimed element and list item slots are below
\* num_routed_wires() = num_copies * (2 + 2^bits), bit slots are at or above
\* it and below num_wires() = num_copies * (2 + 2^bits + bits); once every
\* role is laid out the slots are exactly 0 .. num_wires() - 1, so that
\* num_wires() is one more than the largest slot.
C20_LayoutInjectiveInRange ==
    /\ num_routed_wires(gate) = gate.num_copies * (2 + Pow2(gate.bits))
    /\ num_wires(gate) = gate.num_copies * (2 + Pow2(gate.bits) + gate.bits)
    /\ \A j, k \in 1 .. Len(layout) : j # k => layout[j].slot # layout[k].slot
    /\ \A k \in 1 .. Len(layout) :
          /\ layout[k].slot \in 0 .. (num_wires(gate) - 1)
          /\ layout[k].role.kind \in RoutedKinds => layout[k].slot < num_routed_wires(gate)
          /\ layout[k].role.kind = "bit" => layout[k].slot >= num_routed_wires(gate)
    /\ gpc # "layout" =>
          /\ Len(layout) = gate.num_copies * (2 + Pow2(gate.bits) + gate.bits)
          /\ LayoutSlots = 0 .. (num_wires(gate) - 1)
          /\ \E k \in 1 .. Len(layout) :
                /\ layout[k].slot + 1 = num_wires(gate)
                /\ \A j \in 1 .. Len(layout) : layout[j].slot <= layout[k].slot

\* the 88 roles of RandomAccessGate::new(4, 4) are laid out; the last, bit
\* 3 of copy 3, has slot 87
C20_Witness ==
    /\ gpc # "layout"
    /\ gate = [bits |-> 4, num_copies |-> 4]
    /\ Len(layout) = 88
    /\ layout[88].role = [kind |-> "bit", copy |-> 3, i |-> 3]
    /\ layout[88].slot = 87

(***************************************************************************)
(* The gate sized from a configuration (ConfigSpec).                       *)
(***************************************************************************)
\* n copies of a gate of the given bits fit both limits of the configuration
Fits(c, bits, n) ==
    /\ n * (2 + Pow2(bits)) <= c.num_routed_wires
    /\ n * (2 + Pow2(bits) + bits) <= c.num_wires

\* C21 as stated: the gate of new_from_config has the largest num_copies
\* that fits both limits, and its num_routed_wires() and num_wires() are
\* defined (no panic) and within the configuration's limits.
C21_Original ==
    /\ gpc \in {"sized", "routed", "measured", "panic"} =>
          /\ gate.bits = bits_arg
          /\ Fits(config, bits_arg, gate.num_copies)
          /\ ~ Fits(config, bits_arg, gate.num_copies + 1)
    /\ Len(measured) >= 1 =>
          measured[1] # None /\ measured[1][1] <= config.num_routed_wires
    /\ Len(measured) >= 2 =>
          measured[2] # None /\ measured[2][1] <= config.num_wires

(***************************************************************************)
(* The count of the generators that remain (Spec).                         *)
(***************************************************************************)
Unexpired(flags) == { g \in DOMAIN flags : ~ flags[g] }

\* C22: remaining_generators is the number of generators whose flag in
\* generator_is_expired is false, between 0 and generators.len(); a step
\* never resets a flag and never raises the count, and it lowers the count,
\* by one, exactly when it sets the flag of one generator.
C22_RemainingCountsUnexpired ==
    /\ [](/\ DOMAIN generator_is_expired = 1 .. Len(generators)
          /\ remaining_generators = Cardinality(Unexpired(generator_is_expired))
          /\ remaining_generators \in 0 .. Len(generators))
    /\ [][ /\ \A g \in DOMAIN generator_is_expired :
                generator_is_expired[g] => generator_is_expired'[g]
           /\ remaining_generators' \in {remaining_generators, remaining_generators - 1}
           /\ (remaining_generators' = remaining_generators - 1)
                <=> Cardinality(Unexpired(generator_is_expired)
                                \ Unexpired(generator_is_expired')) = 1
           /\ (remaining_generators' = remaining_generators)
                <=> generator_is_expired' = generator_is_expired ]_vars

\* a list of two generators, one expired and counted off, the other not yet
C22_Witness ==
    /\ pc = "for"
    /\ Len(generators) = 2
    /\ generator_is_expired = << TRUE, FALSE >>
    /\ remaining_generators = 1
    /\ run_calls[1] >= 1

(***************************************************************************)
(* The one-shot adapter (Spec).                                            *)
(***************************************************************************)
\* the step about to be taken invokes run of the adapter at the worklist's
\* position
AdapterInvoked ==
    /\ pc = "for"
    /\ pos <= Len(pending_generator_indices)
    /\ ~ generator_is_expired[generator_idx]
    /\ IsSimple(generators[generator_idx])

\* C23: the adapter's watch list is the inner generator's dependencies; an
\* invocation of it reports completion iff the witness holds a value for
\* every dependency at the call: with one missing it returns false, does
\* not call run_once and leaves the buffer as it is; with all present it
\* calls run_once once, the buffer gets what run_once wrote, and it
\* returns true.
C23_AdapterCompletesIffDependencies ==
    [][ AdapterInvoked =>
          LET idx == generator_idx
              g == generators[idx]
              all_present == \A k \in 1 .. Len(dependencies(g)) :
                                witness[representative_map[dependencies(g)[k]]] # None
          IN  /\ watch_list(g) = dependencies(g)
              /\ run_calls'[idx] = run_calls[idx] + 1
              /\ generator_is_expired'[idx] <=> all_present
              /\ ~ all_present =>
                    /\ run_once_calls' = run_once_calls
                    /\ buffer' = buffer
                    /\ remaining_generators' = remaining_generators
              /\ all_present =>
                    /\ run_once_calls' = [run_once_calls EXCEPT ![idx] = @ + 1]
                    /\ \E o \in run_once(g, witness) : buffer' = buffer \o o
                    /\ remaining_generators' = remaining_generators - 1 ]_vars

\* the list NonzeroTest(1, 0), Copy(0, 1) with Target 0 given: the first
\* was invoked without its dependency and did nothing, the second computed
C23_Witness ==
    /\ pc = "merge"
    /\ generators = << NonzeroTestGenerator(1, 0), CopyGenerator(0, 1) >>
    /\ representative_map = [t \in Targets |-> t]
    /\ seeded = {0}
    /\ run_calls = << 1, 1 >>
    /\ run_once_calls = << 0, 1 >>
    /\ generator_is_expired = << FALSE, TRUE >>
    /\ Len(buffer) = 1
    /\ buffer[1][1] = 1

(***************************************************************************)
(* The first pass (Spec).                                                  *)
(***************************************************************************)
AllGenerators == [k \in 1 .. Len(generators) |-> k]

\* the generator g has been invoked in the first pass
InvokedInFirstPass(g) ==
    \/ pass > 1
    \/ /\ pass = 1
       /\ \/ pc \notin {"for", "merge"}
          \/ pc = "for" /\ pos > g
          \/ pc = "merge" /\ pos >= g

\* C24: the worklist of the first pass is every generator in index order
\* and each is invoked in it, once, in that order; from the first pass on
\* every input has been seeded, so that the representative of every Target
\* of the inputs holds a value; a one-shot generator whose dependencies are
\* all Targets of the inputs (none among them) has run_once called and is
\* expired as soon as the first pass has reached it.
C24_FirstPassRunsAllAfterSeeding ==
    /\ pass = 1 =>
          /\ pending_at_start = AllGenerators
          /\ pc \in {"for", "merge"} =>
                /\ pending_generator_indices = AllGenerators
                /\ \A g \in 1 .. Len(generators) :
                      run_calls[g] = IF InvokedInFirstPass(g) THEN 1 ELSE 0
    /\ (pc = "done" /\ generators # << >>) => pass >= 1
    /\ pass >= 1 =>
          /\ inputs = << >>
          /\ \A t \in seeded : try_get_target(witness, t) # None
    /\ \A g \in 1 .. Len(generators) :
          ( /\ InvokedInFirstPass(g)
            /\ IsSimple(generators[g])
            /\ SeqToSet(dependencies(generators[g])) \subseteq seeded )
          => generator_is_expired[g] /\ run_once_calls[g] = 1

\* the first pass over RandomValue(0), NonzeroTest(1, 0) with Target 1
\* given: both were invoked and both completed
C24_Witness ==
    /\ pass = 1
    /\ pc = "for"
    /\ pos = 3
    /\ generators = << RandomValueGenerator(0), NonzeroTestGenerator(1, 0) >>
    /\ seeded = {1}
    /\ run_calls = << 1, 1 >>
    /\ generator_is_expired = << TRUE, TRUE >>

(***************************************************************************)
(* The buffer between a run and its merge (Spec).                          *)
(***************************************************************************)
\* C25: the buffer is empty except between a run and the merge that
\* follows it; a run changes the buffer and not the witness nor the next
\* worklist; the step after a run is the merge, which writes every pair of
\* the buffer to the witness, in order, and empties the buffer; no other
\* step of the loop writes the witness.
C25_BufferMergedOnceAndCleared ==
    /\ [](pc # "merge" => buffer = << >>)
    /\ [][ /\ (pc = "for" /\ pc' = "merge") =>
                /\ witness' = witness
                /\ next_pending_generator_indices' = next_pending_generator_indices
                /\ \E r \in run(generators[generator_idx], witness) : buffer' = r.out
           /\ pc = "merge" =>
                /\ pc' = "for"
                /\ pos' = pos + 1
                /\ buffer' = << >>
                /\ witness' = SeedAll(witness, buffer)
                /\ run_calls' = run_calls
           /\ (pc \notin {"seed", "merge"}) => witness' = witness ]_vars

\* a merge has just written a new value and left the buffer empty
C25_Witness ==
    /\ pc = "for"
    /\ pos = 2
    /\ buffer = << >>
    /\ run_calls[pending_generator_indices[1]] = 1
    /\ populated_now # {}
    /\ last_write # None
    /\ try_get_target(witness, last_write[1][1]) = Some(last_write[1][2])

(***************************************************************************)
(* The batch size of the permutation argument (StarkSpec).                 *)
(***************************************************************************)
\* C26 as stated: for every constraint degree quotient_degree_factor() is
\* max(1, degree - 1); permutation_batch_size() equals it, is one less than
\* the constraint degree and is at least 1; num_permutation_batches() is
\* defined.
C26_Original ==
    /\ Len(stark_out) >= 1 =>
          /\ stark_out[1] # None
          /\ stark_out[1][1] = usize_max(1, stark.constraint_degree - 1)
    /\ Len(stark_out) >= 2 =>
          /\ stark_out[2] # None
          /\ stark_out[2] = stark_out[1]
          /\ stark_out[2][1] = stark.constraint_degree - 1
          /\ stark_out[2][1] >= 1
    /\ Len(stark_out) >= 3 => stark_out[3] # None

(***************************************************************************)
(* NonzeroTestGenerator (NonzeroSpec).                                     *)
(***************************************************************************)
\* C27: an invocation of a NonzeroTestGenerator whose to_test holds a value
\* puts one pair in the buffer, for its dummy Target: 1 if to_test is zero,
\* otherwise the inverse of to_test, so that to_test * dummy is 0 in the
\* first case and 1 in the second; the merge that follows writes the
\* representative of dummy and no other.
C27_NonzeroTestWritesInverse ==
    [][ /\ ( /\ AdapterInvoked
             /\ generators[generator_idx].kind = "nonzero"
             /\ try_get_target(witness, generators[generator_idx].to_test) # None )
           => LET g == generators[generator_idx]
                  to_test_value == get_target(witness, g.to_test)
              IN  /\ Len(buffer') = 1
                  /\ buffer'[1][1] = g.dummy
                  /\ buffer'[1][2] \in F
                  /\ to_test_value = 0 =>
                        buffer'[1][2] = 1 /\ mul(to_test_value, buffer'[1][2]) = 0
                  /\ to_test_value # 0 =>
                        /\ buffer'[1][2] = inverse(to_test_value)
                        /\ mul(to_test_value, buffer'[1][2]) = 1
        /\ ( /\ pc = "merge"
             /\ generators[generator_idx].kind = "nonzero" )
           => \A r \in Targets :
                 r # representative_map[generators[generator_idx].dummy]
                    => witness'[r] = witness[r] ]_vars

\* NonzeroTest(0, 1) read 2 from Target 0 and put 3 in the buffer for Target 1
C27_Witness ==
    /\ pc = "merge"
    /\ generators[generator_idx] = NonzeroTestGenerator(0, 1)
    /\ representative_map = [t \in Targets |-> t]
    /\ witness[0] = Some(2)
    /\ buffer = << << 1, 3 >> >>

====
